---- MODULE Spec2Model ----
(***************************************************************************)
(* hl-bootstrap: the peer-bootstrap pipeline of prepare_hl_node            *)
(* (main.rs), the seed-peer aggregator (hl_gossip_config.rs) and the       *)
(* latency prober (speedtest.rs).                                          *)
(*                                                                         *)
(* Command-line arguments are read-only inputs of the run.  An argument    *)
(* that decides the early control flow is fixed in Init (args); an         *)
(* argument that is read once, later, is drawn by the action that reads    *)
(* it.  Responses of the outside world (HTTP bodies, connect outcomes,     *)
(* file-system errors) are drawn by the action that receives them.         *)
(***************************************************************************)
EXTENDS Integers, Sequences, FiniteSets, TLC

(***************************************************************************)
(* Bounds of the model                                                     *)
(***************************************************************************)
\* largest number of candidates handed to the prober in Spec
MaxCandidates == 3
\* seed_peers_amount is drawn from 0..MaxN
MaxN == 2
\* seed_peers_max_latency is drawn from 1..MaxLatency
MaxLatency == 2
\* override_gossip_config_max_age
MaxAge == 1
\* number of candidates in SpecProbe is drawn from 0..MaxProbeTasks
MaxProbeTasks == 66
\* number of selected peers in SpecGossip is drawn from 0..MaxSelected
MaxSelected == 102

\* prune_data_older_than, the retention threshold of SpecPrune
PruneOlderThan == 1
\* at most this many read operations fail in one prune cycle of SpecPrune
MaxFsErrors == 1

\* the node reports a time of 0..MaxNodeTime milliseconds in SpecMonitor
MaxNodeTime == 1
\* a Duration of the monitor is a number of units, UnitsPerMs to the millisecond
UnitsPerMs == 2
\* metrics_healthy_drift_threshold is drawn from 0..MaxThreshold units
MaxThreshold == 2
\* at most this many deadlines of an interval pass while a cycle runs
MaxMissedTicks == 2
\* a body of the /info proxy has 0..MaxBodyLen bytes
MaxBodyLen == 1
\* the located section of the README has 0..MaxLines lines in SpecTable
MaxLines == 4
\* a source lists 0..MaxListed addresses in SpecReplay
MaxListed == 2
\* the pipeline is run MaxRuns times on the same inputs in SpecReplay
MaxRuns == 2

(***************************************************************************)
(* Program constants                                                       *)
(***************************************************************************)
concurrency == 64
\* monitor/mod.rs:106, a warning for every 50th failure
WarnEvery == 50
GossipPeersThreshold == 8
GossipPeersMax == 100

IPs == {"10.0.0.1", "10.0.0.2"}
Operators == {"opA"}
ApiLabel == "Hyperliquid API-provided IP"
TestnetLabel == "Imperator.co"
ManualLabel == "manual"
Chains == {"Mainnet", "Testnet"}
None == "None"

\* the wall clock when prepare_hl_node runs
NowTime == MaxAge + 1

VARIABLES
    args,                \* Cli: the max age; and the target path's state when the run starts
    pc,                  \* position of main / prepare_hl_node
    network,             \* main.rs:255
    ignored_seed_peers,  \* main.rs:270
    config,              \* main.rs:300
    all_peers,           \* hl_gossip_config.rs:87
    sources,             \* hl_gossip_config.rs:89, 97: what each mainnet fetcher returned
    seed_nodes,          \* main.rs:303
    timeout_duration,    \* speedtest.rs:51
    joined,              \* speedtest.rs:82, number of tasks already awaited
    successful_nodes,    \* speedtest.rs:79
    failed,              \* speedtest.rs:80
    n_arg,               \* speedtest.rs:50
    tested_seed_nodes,   \* main.rs:321, the Result returned by speedtest_nodes
    tmp,                 \* main.rs:349, the NamedTempFile
    target,              \* the file system at override_gossip_config_path
    result,              \* what prepare_hl_node returned
    exit_code,           \* the exit status of the process
    io,                  \* which outside effects the run has performed
    permits,             \* SpecProbe: speedtest.rs:63, free permits of the semaphore
    p_total,             \* SpecProbe: number of probe tasks spawned
    p_waiting,           \* SpecProbe: tasks suspended in sem.acquire()
    p_inflight,          \* SpecProbe: tasks holding a permit, connecting
    p_done,              \* SpecProbe: tasks that resolved and dropped the permit
    tree0,               \* SpecPrune: the data directory when the cycle starts
    tree,                \* SpecPrune: the data directory
    cleanup_pc,          \* SpecPrune: position of run_cleanup
    walk,                \* SpecPrune: the call stack of collect_files_recursive
    files_to_remove,     \* prune.rs:38
    rm_iter,             \* prune.rs:53, what the for loop has still to visit
    removed,             \* prune.rs:50
    failed_rm,           \* prune.rs:51, the local named failed
    attempted,           \* SpecPrune: the paths remove_file was called on, in order
    errors,              \* SpecPrune: the file-system operations that failed
    cleanup_result,      \* SpecPrune: what run_cleanup returned
    healthy_drift_threshold, \* monitor/server.rs:21
    poll_pc,             \* SpecMonitor: position of poll_node
    system_now,          \* monitor/mod.rs:93
    poll_n,              \* monitor/mod.rs:89, the local named n
    gauge_responding,    \* GAUGE_HL_NODE_RESPONDING
    gauge_system_time,   \* GAUGE_HL_NODE_SYSTEM_TIME_MS
    gauge_node_time,     \* GAUGE_HL_NODE_TIME_MS
    drift_sample,        \* the sample last observed by HISTOGRAM_HL_NODE_TIME_DRIFT_MS
    last_tick,           \* SpecMonitor: whether the last completed poll tick got an answer
    response,            \* SpecMonitor: the answer of the server on its way to the client
    poll_due,            \* monitor/mod.rs:86: deadlines of the interval that have passed and were not delivered
    info_exchange,       \* monitor/server.rs:70: the /info request being answered and what was done with it
    prune_due,           \* prune.rs:16: deadlines of the interval that have passed and were not delivered
    ended,               \* the background tasks that panicked or returned
    peers_content,       \* hl_gossip_config.rs:170: the lines of the located section
    md_result,           \* what fetch_mainnet_seed_peers_markdown_table returned for them
    config_snippet,      \* hl_gossip_config.rs:291: a gossip configuration document
    serialized,          \* hl_gossip_config.rs:303: the document written from the parsed configuration
    run_inputs,          \* SpecReplay: what the outside world gives to every run of the pipeline
    run_outputs          \* SpecReplay: the root_node_ips persisted by the runs so far

vars == <<args, pc, network, ignored_seed_peers, config, all_peers, sources, seed_nodes,
          timeout_duration, joined, successful_nodes, failed,
          n_arg, tested_seed_nodes, tmp, target, result, exit_code, io,
          permits, p_total, p_waiting, p_inflight, p_done,
          tree0, tree, cleanup_pc, walk, files_to_remove, rm_iter, removed,
          failed_rm, attempted, errors, cleanup_result,
          healthy_drift_threshold, poll_pc, system_now, poll_n, gauge_responding,
          gauge_system_time, gauge_node_time, drift_sample, last_tick, response,
          poll_due, info_exchange, prune_due, ended,
          peers_content, md_result, config_snippet, serialized,
          run_inputs, run_outputs>>

probeVars == <<permits, p_total, p_waiting, p_inflight, p_done>>

cleanupVars == <<tree0, tree, cleanup_pc, walk, files_to_remove, rm_iter, removed,
                 failed_rm, attempted, errors, cleanup_result, prune_due>>

monitorVars == <<healthy_drift_threshold, poll_pc, system_now, poll_n, gauge_responding,
                 gauge_system_time, gauge_node_time, drift_sample, last_tick, response,
                 poll_due, info_exchange>>

taskVars == <<ended>>

parseVars == <<peers_content, md_result, config_snippet, serialized>>

replayVars == <<run_inputs, run_outputs>>

workerVars == <<cleanupVars, monitorVars, taskVars, parseVars, replayVars>>

(***************************************************************************)
(* Helpers                                                                 *)
(***************************************************************************)
BoundedSeq(S, n) == UNION {[1..k -> S] : k \in 0..n}

Range(s) == {s[i] : i \in 1..Len(s)}

Min(a, b) == IF a <= b THEN a ELSE b

\* every ordering of a finite set
Orderings(S) ==
    {f \in [1..Cardinality(S) -> S] : \A x \in S : \E i \in 1..Cardinality(S) : f[i] = x}

\* a Result whose payload is a sequence; an error carries none
Ok(v) == [ok |-> TRUE, val |-> v]
Err == [ok |-> FALSE, val |-> <<>>]

\* Option<T> as a sequence of at most one element
NoneOpt == <<>>
Some(v) == <<v>>

(***************************************************************************)
(* hl_gossip_config.rs: the Gossip Configuration and its JSON form         *)
(***************************************************************************)
HyperliquidSeedPeer(name, ip) == [operator_name |-> name, ip |-> ip]

\* OverrideGossipConfig::new
NewConfig(chain) ==
    [root_node_ips |-> <<>>,
     try_new_peers |-> TRUE,
     chain |-> chain,
     n_gossip_peers |-> NoneOpt,
     unknown |-> <<>>]

\* impl From<HyperliquidSeedPeer> for NodeIp: the operator name is dropped
NodeIp(peer) == [Ip |-> peer.ip]

Token(k, v) == [k |-> k, v |-> v]

JsonBool(b) == IF b THEN "true" ELSE "false"

\* serde's Serialize of OverrideGossipConfig, as the sequence of pieces that
\* serde_json::to_writer hands to the writer: the opening brace, one piece per
\* serialized field in declaration order, the closing brace.  n_gossip_peers
\* is skipped when None; the flattened unknown map contributes its entries.
Serialize(cfg) ==
    <<Token("{", <<>>),
      Token("root_node_ips", [i \in 1..Len(cfg.root_node_ips) |-> cfg.root_node_ips[i].Ip]),
      Token("try_new_peers", <<JsonBool(cfg.try_new_peers)>>),
      Token("chain", <<cfg.chain>>)>>
    \o (IF cfg.n_gossip_peers = NoneOpt
        THEN <<>>
        ELSE <<Token("n_gossip_peers", <<ToString(cfg.n_gossip_peers[1])>>)>>)
    \o cfg.unknown
    \o <<Token("}", <<>>)>>

HasKey(doc, key) == \E i \in 1..Len(doc) : doc[i].k = key

ValueOf(doc, key) == doc[CHOOSE i \in 1..Len(doc) : doc[i].k = key].v

\* a configuration file written by somebody else before this run
OldDoc ==
    <<Token("{", <<>>),
      Token("root_node_ips", <<"10.9.9.9">>),
      Token("try_new_peers", <<"false">>),
      Token("chain", <<"Mainnet">>),
      Token("reserved_peer_ips", <<"5.6.7.8">>),
      Token("}", <<>>)>>

(***************************************************************************)
(* hl_gossip_config.rs: the source fetchers                                *)
(***************************************************************************)
\* the elements of s that are not in the ignore set, in order
RECURSIVE FilterSeq(_, _)
FilterSeq(s, ignored) ==
    IF s = <<>> THEN <<>>
    ELSE IF Head(s) \in ignored THEN FilterSeq(Tail(s), ignored)
    ELSE <<Head(s)>> \o FilterSeq(Tail(s), ignored)

\* fetch_mainnet_seed_peers_api: resp is the outcome of the POST, either a
\* failure (transport, status, parse) or the list of addresses in the body
FetchMainnetSeedPeersApi(resp, ignored) ==
    IF ~resp.ok THEN Err
    ELSE IF resp.val = <<>> THEN Err
    ELSE LET kept == FilterSeq(resp.val, ignored)
         IN  Ok([i \in 1..Len(kept) |-> HyperliquidSeedPeer(ApiLabel, kept[i])])

\* fetch_testnet_seed_peers: resp is the outcome of the GET, either a failure
\* or the root_node_ips of the hosted document
FetchTestnetSeedPeers(resp, ignored) ==
    IF ~resp.ok THEN Err
    ELSE LET kept == FilterSeq(resp.val, ignored)
         IN  Ok([i \in 1..Len(kept) |-> HyperliquidSeedPeer(TestnetLabel, kept[i])])

\* A line of the located README section after trim():
\*   blank  empty
\*   text   does not start and end with '|'
\*   sep    starts and ends with '|', only '|', '-' and whitespace
\*   row    starts and ends with '|', cells = its trimmed non-empty cells
Line(t, cells) == [t |-> t, cells |-> cells]

HeaderCells == <<"Operator", "Root IPs">>

MentionsOperator(cell) == cell = "Operator"
MentionsRootOrIp(cell) == cell = "Root IPs"

\* str::parse::<Ipv4Addr>
ParsesAsIpv4(cell) == cell \in IPs

\* mutant of TableStep: a line that is no table row never ends the table
TableStepNoBreak(st, line, ignored) ==
    IF line.t = "blank" THEN st
    ELSE IF line.t \in {"sep", "row"} THEN
        IF line.t = "sep" THEN [st EXCEPT !.in_table = TRUE]
        ELSE IF /\ ~st.header_found
                /\ Len(line.cells) >= 2
                /\ \/ MentionsOperator(line.cells[1])
                   \/ MentionsRootOrIp(line.cells[2])
             THEN [st EXCEPT !.header_found = TRUE, !.in_table = TRUE]
        ELSE IF st.in_table /\ st.header_found /\ Len(line.cells) >= 2
             THEN IF ParsesAsIpv4(line.cells[2]) /\ line.cells[2] \notin ignored
                  THEN [st EXCEPT !.peers =
                            Append(@, HyperliquidSeedPeer(line.cells[1], line.cells[2]))]
                  ELSE st
        ELSE st
    ELSE st

\* one iteration of the loop over the lines; st.stop records the break
TableStep(st, line, ignored) ==
    IF line.t = "blank" THEN st
    ELSE IF line.t \in {"sep", "row"} THEN
        IF line.t = "sep" THEN [st EXCEPT !.in_table = TRUE]
        ELSE IF /\ ~st.header_found
                /\ Len(line.cells) >= 2
                /\ \/ MentionsOperator(line.cells[1])
                   \/ MentionsRootOrIp(line.cells[2])
             THEN [st EXCEPT !.header_found = TRUE, !.in_table = TRUE]
        ELSE IF st.in_table /\ st.header_found /\ Len(line.cells) >= 2
             THEN IF ParsesAsIpv4(line.cells[2]) /\ line.cells[2] \notin ignored
                  THEN [st EXCEPT !.peers =
                            Append(@, HyperliquidSeedPeer(line.cells[1], line.cells[2]))]
                  ELSE st
        ELSE st
    ELSE IF st.in_table THEN [st EXCEPT !.stop = TRUE]
    ELSE st

RECURSIVE TableLoop(_, _, _)
TableLoop(st, lines, ignored) ==
    IF lines = <<>> \/ st.stop THEN st
    ELSE TableLoop(TableStep(st, Head(lines), ignored), Tail(lines), ignored)

\* fetch_mainnet_seed_peers_markdown_table: resp is the outcome of the GET,
\* either a failure (transport, or no such section) or the lines of the
\* section up to the next heading
FetchMainnetSeedPeersMarkdownTable(resp, ignored) ==
    IF ~resp.ok THEN Err
    ELSE LET st == TableLoop([in_table |-> FALSE, header_found |-> FALSE,
                              stop |-> FALSE, peers |-> <<>>], resp.val, ignored)
         IN  IF st.peers = <<>> THEN Err ELSE Ok(st.peers)

(***************************************************************************)
(* speedtest.rs                                                            *)
(***************************************************************************)
\* measure_node_latency: conn is what TcpStream::connect does, a transport
\* error or a connection established after conn.val[1] time units
MeasureNodeLatency(conn, timeout) ==
    IF ~conn.ok THEN [ok |-> FALSE, err |-> "IOError", latency |-> 0]
    ELSE IF conn.val[1] > timeout THEN [ok |-> FALSE, err |-> "Timeout", latency |-> 0]
    ELSE [ok |-> TRUE, err |-> "", latency |-> conn.val[1]]

\* mutant of InsertByLatency: an element goes before the elements that compare
\* equal, as an unstable sort may place it
RECURSIVE InsertByLatencyUnstable(_, _)
InsertByLatencyUnstable(x, sorted) ==
    IF sorted = <<>> THEN <<x>>
    ELSE IF Head(sorted)[2] < x[2]
         THEN <<Head(sorted)>> \o InsertByLatencyUnstable(x, Tail(sorted))
    ELSE <<x>> \o sorted

\* slice::sort_by(|a, b| a.1.cmp(&b.1)) is a stable sort: an element goes
\* after every element that does not compare greater
RECURSIVE InsertByLatency(_, _)
InsertByLatency(x, sorted) ==
    IF sorted = <<>> THEN <<x>>
    ELSE IF Head(sorted)[2] <= x[2] THEN <<Head(sorted)>> \o InsertByLatency(x, Tail(sorted))
    ELSE <<x>> \o sorted

RECURSIVE SortByLatency(_)
SortByLatency(s) ==
    IF s = <<>> THEN <<>>
    ELSE InsertByLatency(s[Len(s)], SortByLatency(SubSeq(s, 1, Len(s) - 1)))

\* speedtest.rs:110-128: the n lowest latency nodes
TakeLowest(cands, succ, n) ==
    LET sorted == SortByLatency(succ)
        to_take == Min(n, Len(sorted))
    IN  [i \in 1..to_take |-> cands[sorted[i][1]]]

\* mutant of SpeedtestResult: no successful probe is reported as an error
SpeedtestResultBail(cands, succ, n) ==
    IF succ = <<>> THEN Err ELSE Ok(TakeLowest(cands, succ, n))

\* speedtest.rs:48-129: what speedtest_nodes returns once every task has been
\* awaited; no path after the loop returns an error
SpeedtestResult(cands, succ, n) == Ok(TakeLowest(cands, succ, n))

(***************************************************************************)
(* main.rs: the refresh decision and the derived fan-out                   *)
(***************************************************************************)
\* mutant of LastModified: a modification time in the future counts as the
\* longest duration instead of the zero duration
LastModifiedFutureIsOld(mtime, now) == IF mtime <= now THEN now - mtime ELSE 1000000

\* SystemTime::elapsed().unwrap_or_default(): a modification time in the
\* future is an error, replaced by the zero duration
LastModified(mtime, now) == IF mtime <= now THEN now - mtime ELSE 0

\* mutant of ShouldRefresh: a file exactly max_age old is refreshed
ShouldRefreshAtMaxAge(meta, now, max_age) ==
    ~(meta.kind = "file" /\ LastModified(meta.mtime, now) < max_age)

\* main.rs:272-292: FALSE when the function returns early
ShouldRefresh(meta, now, max_age) ==
    ~(meta.kind = "file" /\ LastModified(meta.mtime, now) <= max_age)

\* mutant of AdjustGossipPeers: the count is not clamped
AdjustGossipPeersNoClamp(cfg) ==
    LET n_gossip_peers == Len(cfg.root_node_ips)
    IN  IF n_gossip_peers > GossipPeersThreshold
        THEN [cfg EXCEPT !.n_gossip_peers = Some(n_gossip_peers % 65536)]
        ELSE cfg

\* main.rs:343-346
AdjustGossipPeers(cfg) ==
    LET n_gossip_peers == Len(cfg.root_node_ips)
    IN  IF n_gossip_peers > GossipPeersThreshold
        THEN [cfg EXCEPT !.n_gossip_peers = Some(Min(n_gossip_peers, GossipPeersMax) % 65536)]
        ELSE cfg

(***************************************************************************)
(* Initial states                                                          *)
(***************************************************************************)
Absent == [kind |-> "absent", mtime |-> 0, content |-> <<>>]
Directory == [kind |-> "dir", mtime |-> 0, content |-> <<>>]
RegularFile(mtime, content) == [kind |-> "file", mtime |-> mtime, content |-> content]

\* exists: the temporary file is in the directory; held: a NamedTempFile
\* value that owns its path is alive, so that its drop will remove the file
NoTemp == [exists |-> FALSE, content |-> <<>>, held |-> FALSE]

InitialTargets ==
    {Absent, Directory} \cup {RegularFile(m, OldDoc) : m \in 0..(NowTime + 1)}

\* launched: hl-visor was started; tasks: the background tasks spawned on the
\* runtime; remove_failed: the removal of the temporary file failed
NoIo == [fetched |-> FALSE, probed |-> FALSE, temp_created |-> FALSE, renamed |-> FALSE,
         launched |-> FALSE, tasks |-> {}, remove_failed |-> FALSE]

\* Drop of NamedTempFile: one attempt to remove the file at its path, whose
\* failure is ignored
DropTemp(unlinked) ==
    IF unlinked
    THEN /\ tmp' = NoTemp
         /\ UNCHANGED io
    ELSE /\ tmp' = [tmp EXCEPT !.held = FALSE]
         /\ io' = [io EXCEPT !.remove_failed = TRUE]

\* neither mainnet fetcher has returned yet
NoSources == [api |-> NoneOpt, md |-> NoneOpt]

ProbeIdle ==
    /\ permits = 0
    /\ p_total = 0
    /\ p_waiting = 0
    /\ p_inflight = 0
    /\ p_done = 0

\* no prune cycle is running and the data directory is not looked at
CleanupIdle ==
    /\ tree0 = <<>>
    /\ tree = <<>>
    /\ cleanup_pc = "idle"
    /\ walk = <<>>
    /\ files_to_remove = <<>>
    /\ rm_iter = <<>>
    /\ removed = 0
    /\ failed_rm = 0
    /\ attempted = <<>>
    /\ errors = {}
    /\ cleanup_result = "running"
    /\ prune_due = 0

\* no answer is on its way
NoResponse == [endpoint |-> "", status |-> 0]

\* no /info request is being answered
NoExchange == [method |-> "", headers |-> {}, body |-> <<>>, forwarded |-> NoneOpt,
               upstream |-> NoneOpt, reply_headers |-> {}, reply |-> <<>>]

\* the poller and the server have not run; a gauge is registered with 0 and
\* the first tick of an interval is due at once
MonitorIdle ==
    /\ healthy_drift_threshold = 0
    /\ poll_pc = "tick"
    /\ system_now = 0
    /\ poll_n = 1
    /\ gauge_responding = 0
    /\ gauge_system_time = 0
    /\ gauge_node_time = 0
    /\ drift_sample = NoneOpt
    /\ last_tick = NoneOpt
    /\ response = NoResponse
    /\ poll_due = 1
    /\ info_exchange = NoExchange

\* no background task has ended
TasksIdle == ended = {}

\* no document is being parsed
ParseIdle ==
    /\ peers_content = <<>>
    /\ md_result = Err
    /\ config_snippet = <<>>
    /\ serialized = <<>>

\* no run of the pipeline is being replayed
ReplayIdle ==
    /\ run_inputs = <<>>
    /\ run_outputs = <<>>

WorkersIdle == CleanupIdle /\ MonitorIdle /\ TasksIdle /\ ParseIdle /\ ReplayIdle

Init ==
    /\ args \in [max_age : {MaxAge}, target0 : InitialTargets]
    /\ pc = "start"
    /\ network = None
    /\ ignored_seed_peers = {}
    /\ config = NewConfig(None)
    /\ all_peers = {}
    /\ sources = NoSources
    /\ seed_nodes = <<>>
    /\ timeout_duration = 0
    /\ joined = 0
    /\ successful_nodes = <<>>
    /\ failed = 0
    /\ n_arg = 0
    /\ tested_seed_nodes = Err
    /\ tmp = NoTemp
    /\ target = args.target0
    /\ result = "running"
    /\ exit_code = -1
    /\ io = NoIo
    /\ ProbeIdle
    /\ WorkersIdle

(***************************************************************************)
(* prepare_hl_node                                                         *)
(***************************************************************************)
fetchVars == <<all_peers, sources, seed_nodes>>
speedVars == <<timeout_duration, joined, successful_nodes, failed,
               n_arg, tested_seed_nodes>>
fileVars == <<tmp, target>>

\* an early return of prepare_hl_node with an error (the ? operator, bail!)
Fail ==
    /\ result' = "Err"
    /\ pc' = "returned"

\* main.rs:255-270: the network argument is read here; visor is the outcome
\* of read_hl_visor_config, read only when no network was given
DetermineNetwork ==
    /\ pc = "start"
    /\ \E network_arg \in Chains \cup {None},
          visor \in {Err} \cup {Ok(<<c>>) : c \in Chains},
          ignored \in SUBSET IPs :
          IF network_arg # None
          THEN /\ network' = network_arg
               /\ ignored_seed_peers' = ignored
               /\ pc' = "check_age"
               /\ UNCHANGED result
          ELSE IF visor.ok
          THEN /\ network' = visor.val[1]
               /\ ignored_seed_peers' = ignored
               /\ pc' = "check_age"
               /\ UNCHANGED result
          ELSE /\ Fail
               /\ UNCHANGED <<network, ignored_seed_peers>>
    /\ UNCHANGED <<args, config, fetchVars, speedVars, fileVars, exit_code, io, probeVars, workerVars>>

\* main.rs:272-300
CheckAge ==
    /\ pc = "check_age"
    /\ IF ShouldRefresh(target, NowTime, args.max_age)
       THEN /\ config' = NewConfig(network)
            /\ pc' = IF network = "Mainnet" THEN "fetch_api" ELSE "fetch_testnet"
            /\ UNCHANGED result
       ELSE /\ result' = "Ok"
            /\ pc' = "returned"
            /\ UNCHANGED config
    /\ UNCHANGED <<args, network, ignored_seed_peers, fetchVars, speedVars, fileVars,
                   exit_code, io, probeVars, workerVars>>

\* the remote side accepts the request and never answers
NoAnswer == [ok |-> FALSE, val |-> <<"no answer">>]

\* what the three network sources may answer
ApiResponses == {Err} \cup {Ok(b) : b \in BoundedSeq(IPs, MaxCandidates)}

TestnetResponses == {Err} \cup {Ok(b) : b \in BoundedSeq(IPs, MaxCandidates)}

RowLines == {Line("row", <<o, ip>>) : o \in Operators, ip \in IPs}

MarkdownResponses ==
    {Err} \cup {Ok(<<Line("row", HeaderCells), Line("sep", <<>>)>> \o rows) :
                    rows \in BoundedSeq(RowLines, MaxCandidates)}

\* mutant of Extend: the later result replaces the earlier one
ExtendReplace(set, peers) == Range(peers)

\* HashSet::extend: the set holds HyperliquidSeedPeer values, whose derived
\* Eq and Hash cover both operator_name and ip
Extend(set, peers) == set \cup Range(peers)

\* hl_gossip_config.rs:87-95.  reqwest::Client::new() (line 115) sets no
\* timeout: when the remote side never answers, send().await never resolves
FetchApi ==
    /\ pc = "fetch_api"
    /\ \E resp \in ApiResponses \cup {NoAnswer} :
          IF resp = NoAnswer
          THEN /\ pc' = "awaiting"
               /\ UNCHANGED <<all_peers, sources>>
          ELSE LET r == FetchMainnetSeedPeersApi(resp, ignored_seed_peers)
               IN  /\ all_peers' = IF r.ok THEN Extend(all_peers, r.val) ELSE all_peers
                   /\ sources' = [sources EXCEPT !.api = Some(r)]
                   /\ pc' = "fetch_md"
    /\ io' = [io EXCEPT !.fetched = TRUE]
    /\ UNCHANGED <<args, network, ignored_seed_peers, config, seed_nodes, speedVars,
                   fileVars, result, exit_code, probeVars, workerVars>>

\* hl_gossip_config.rs:97-106: Vec::from_iter walks the HashSet in the order
\* of its randomly seeded hasher, any ordering of the set.  reqwest::get
\* (line 154) sets no timeout either
FetchMarkdown ==
    /\ pc = "fetch_md"
    /\ \E resp \in MarkdownResponses \cup {NoAnswer} :
          IF resp = NoAnswer
          THEN /\ pc' = "awaiting"
               /\ UNCHANGED <<all_peers, sources, seed_nodes, result>>
          ELSE LET r == FetchMainnetSeedPeersMarkdownTable(resp, ignored_seed_peers)
                   all == IF r.ok THEN Extend(all_peers, r.val) ELSE all_peers
               IN  /\ Cardinality(all) <= MaxCandidates
                   /\ all_peers' = all
                   /\ sources' = [sources EXCEPT !.md = Some(r)]
                   /\ IF all = {}
                      THEN /\ Fail
                           /\ UNCHANGED seed_nodes
                      ELSE /\ seed_nodes' \in Orderings(all)
                           /\ pc' = "extras"
                           /\ UNCHANGED result
    /\ UNCHANGED <<args, network, ignored_seed_peers, config, speedVars, fileVars,
                   exit_code, io, probeVars, workerVars>>

\* hl_gossip_config.rs:108, 252-282; reqwest::get (line 256) sets no timeout
FetchTestnet ==
    /\ pc = "fetch_testnet"
    /\ \E resp \in TestnetResponses \cup {NoAnswer} :
          IF resp = NoAnswer
          THEN /\ pc' = "awaiting"
               /\ UNCHANGED <<seed_nodes, result>>
          ELSE LET r == FetchTestnetSeedPeers(resp, ignored_seed_peers)
               IN  IF r.ok
                   THEN /\ seed_nodes' = r.val
                        /\ pc' = "extras"
                        /\ UNCHANGED result
                   ELSE /\ Fail
                        /\ UNCHANGED seed_nodes
    /\ io' = [io EXCEPT !.fetched = TRUE]
    /\ UNCHANGED <<args, network, ignored_seed_peers, config, all_peers, sources, speedVars,
                   fileVars, exit_code, probeVars, workerVars>>

\* main.rs:306-320: seed_peers_extra is read here
AppendExtras ==
    /\ pc = "extras"
    /\ \E seed_peers_extra \in BoundedSeq(IPs, MaxCandidates - Len(seed_nodes)) :
          seed_nodes' = seed_nodes \o
              [i \in 1..Len(seed_peers_extra) |->
                  HyperliquidSeedPeer(ManualLabel, seed_peers_extra[i])]
    /\ sources' = NoSources
    /\ pc' = IF seed_nodes' # <<>> THEN "speedtest" ELSE "create_temp"
    /\ UNCHANGED <<args, network, ignored_seed_peers, config, all_peers, speedVars,
                   fileVars, result, exit_code, io, probeVars, workerVars>>

(***************************************************************************)
(* speedtest_nodes, as prepare_hl_node sees it.  Every probe task runs the *)
(* same code on its own address and shares nothing with the others but the *)
(* semaphore, and the loop at speedtest.rs:82 awaits the tasks in the      *)
(* order they were spawned: the result of task idx is the outcome of its   *)
(* own connection attempt, drawn when the loop receives it.  The           *)
(* scheduling of the tasks under the semaphore is SpecProbe, below.        *)
(***************************************************************************)
\* what TcpStream::connect may do: fail, or connect after some time
ConnectOutcomes == {Err} \cup {Ok(<<t>>) : t \in 1..(MaxLatency + 1)}

\* speedtest.rs:48-80: one task is spawned per candidate.
\* seed_peers_max_latency is read here (main.rs:324)
SpawnTasks ==
    /\ pc = "speedtest"
    /\ timeout_duration' \in 1..MaxLatency
    /\ joined' = 0
    /\ successful_nodes' = <<>>
    /\ failed' = 0
    /\ io' = [io EXCEPT !.probed = TRUE]
    /\ pc' = "join"
    /\ UNCHANGED <<args, network, ignored_seed_peers, config, fetchVars, n_arg,
                   tested_seed_nodes, fileVars, result, exit_code, probeVars, workerVars>>

\* speedtest.rs:82-96: one iteration of the loop that awaits the tasks;
\* task idx hands over (idx, measure_node_latency(ip, port, timeout_duration))
JoinTask ==
    /\ pc = "join"
    /\ joined < Len(seed_nodes)
    /\ \E conn \in ConnectOutcomes :
          LET idx == joined + 1
              latency == MeasureNodeLatency(conn, timeout_duration)
          IN  /\ IF latency.ok
                 THEN /\ successful_nodes' = Append(successful_nodes, <<idx, latency.latency>>)
                      /\ UNCHANGED failed
                 ELSE /\ failed' = failed + 1
                      /\ UNCHANGED successful_nodes
              /\ joined' = idx
    /\ UNCHANGED <<args, pc, network, ignored_seed_peers, config, fetchVars,
                   timeout_duration, n_arg, tested_seed_nodes, fileVars,
                   result, exit_code, io, probeVars, workerVars>>

\* speedtest.rs:98-128: seed_peers_amount is first used here (line 110)
SpeedtestReturn ==
    /\ pc = "join"
    /\ joined = Len(seed_nodes)
    /\ n_arg' \in 0..MaxN
    /\ tested_seed_nodes' = SpeedtestResult(seed_nodes, successful_nodes, n_arg')
    /\ pc' = "tested"
    /\ UNCHANGED <<args, network, ignored_seed_peers, config, fetchVars,
                   timeout_duration, joined, successful_nodes, failed,
                   fileVars, result, exit_code, io, probeVars, workerVars>>

\* mutant of PushSeeds: the seeds are pushed from the last to the first
PushSeedsReversed(cfg, seeds) ==
    [cfg EXCEPT !.root_node_ips =
        @ \o [i \in 1..Len(seeds) |-> NodeIp(seeds[Len(seeds) + 1 - i])]]

\* main.rs:336-338
PushSeeds(cfg, seeds) ==
    [cfg EXCEPT !.root_node_ips = @ \o [i \in 1..Len(seeds) |-> NodeIp(seeds[i])]]

\* mutant of BuildConfig: an empty prober result is not an error
BuildConfigNoBail ==
    /\ pc = "tested"
    /\ IF ~tested_seed_nodes.ok
       THEN /\ Fail
            /\ UNCHANGED config
       ELSE /\ config' = AdjustGossipPeers(PushSeeds(config, tested_seed_nodes.val))
            /\ pc' = "create_temp"
            /\ UNCHANGED result
    /\ timeout_duration' = 0
    /\ joined' = 0
    /\ successful_nodes' = <<>>
    /\ failed' = 0
    /\ UNCHANGED <<args, network, ignored_seed_peers, fetchVars, n_arg, tested_seed_nodes,
                   fileVars, exit_code, io, probeVars, workerVars>>

\* main.rs:327-347; the locals of speedtest_nodes are gone by now
BuildConfig ==
    /\ pc = "tested"
    /\ IF ~tested_seed_nodes.ok \/ tested_seed_nodes.val = <<>>
       THEN /\ Fail
            /\ UNCHANGED config
       ELSE /\ config' = AdjustGossipPeers(PushSeeds(config, tested_seed_nodes.val))
            /\ pc' = "create_temp"
            /\ UNCHANGED result
    /\ timeout_duration' = 0
    /\ joined' = 0
    /\ successful_nodes' = <<>>
    /\ failed' = 0
    /\ UNCHANGED <<args, network, ignored_seed_peers, fetchVars, n_arg, tested_seed_nodes,
                   fileVars, exit_code, io, probeVars, workerVars>>

(***************************************************************************)
(* main.rs:349-357: persisting the configuration                           *)
(***************************************************************************)
\* NamedTempFile::new_in(config_path_directory)?
CreateTemp ==
    /\ pc = "create_temp"
    /\ \E created \in BOOLEAN :
          IF created
          THEN /\ tmp' = [exists |-> TRUE, content |-> <<>>, held |-> TRUE]
               /\ io' = [io EXCEPT !.temp_created = TRUE]
               /\ pc' = "write"
               /\ UNCHANGED result
          ELSE /\ Fail
               /\ UNCHANGED <<tmp, io>>
    /\ UNCHANGED <<args, network, ignored_seed_peers, config, fetchVars, speedVars,
                   target, exit_code, probeVars, workerVars>>

\* mutant of WriteConfig: the document is written straight to the target path
WriteConfigInPlace ==
    /\ pc = "write"
    /\ LET doc == Serialize(config)
       IN  \E written \in BOOLEAN :
             IF written
             THEN /\ tmp' = [tmp EXCEPT !.content = Append(@, doc[Len(@) + 1])]
                  /\ target' = RegularFile(NowTime, tmp'.content)
                  /\ pc' = IF Len(tmp'.content) = Len(doc) THEN "persist" ELSE "write"
                  /\ UNCHANGED result
             ELSE /\ tmp' = NoTemp
                  /\ Fail
                  /\ UNCHANGED target
    /\ UNCHANGED <<args, network, ignored_seed_peers, config, fetchVars, speedVars,
                   exit_code, io, probeVars, workerVars>>

\* serde_json::to_writer: one write of the next piece of the document to the
\* temporary file; a failed write ends prepare_hl_node through the ? of line
\* 351, and new_config_file is dropped on the way out
WriteConfig ==
    /\ pc = "write"
    /\ LET doc == Serialize(config)
       IN  \E written \in BOOLEAN, unlinked \in BOOLEAN :
             IF written
             THEN /\ tmp' = [tmp EXCEPT !.content = Append(@, doc[Len(@) + 1])]
                  /\ pc' = IF Len(tmp'.content) = Len(doc) THEN "persist" ELSE "write"
                  /\ UNCHANGED <<result, io>>
             ELSE /\ DropTemp(unlinked)
                  /\ Fail
    /\ UNCHANGED <<args, network, ignored_seed_peers, config, fetchVars, speedVars,
                   target, exit_code, probeVars, workerVars>>

\* mutant of PersistConfig: after a failed persist nothing owns the
\* temporary file any more, and nothing removes it
PersistConfigLeaks ==
    /\ pc = "persist"
    /\ \E renamed \in BOOLEAN :
          IF renamed /\ target.kind # "dir"
          THEN /\ target' = RegularFile(NowTime, tmp.content)
               /\ tmp' = NoTemp
               /\ io' = [io EXCEPT !.renamed = TRUE]
               /\ result' = "Ok"
               /\ pc' = "returned"
          ELSE /\ tmp' = [tmp EXCEPT !.held = FALSE]
               /\ Fail
               /\ UNCHANGED <<target, io>>
    /\ UNCHANGED <<args, network, ignored_seed_peers, config, fetchVars, speedVars,
                   exit_code, probeVars, workerVars>>

\* NamedTempFile::persist: rename(2) of the temporary file onto the target
\* path; it cannot replace a directory, and may fail for other reasons.  On
\* failure it returns PersistError, which carries the NamedTempFile; wrap_err
\* puts that error into the report prepare_hl_node returns (main.rs:353-355),
\* so the file stays until the report is dropped
PersistConfig ==
    /\ pc = "persist"
    /\ \E renamed \in BOOLEAN :
          IF renamed /\ target.kind # "dir"
          THEN /\ target' = RegularFile(NowTime, tmp.content)
               /\ tmp' = NoTemp
               /\ io' = [io EXCEPT !.renamed = TRUE]
               /\ result' = "Ok"
               /\ pc' = "returned"
          ELSE /\ Fail
               /\ UNCHANGED <<tmp, target, io>>
    /\ UNCHANGED <<args, network, ignored_seed_peers, config, fetchVars, speedVars,
                   exit_code, probeVars, workerVars>>

(***************************************************************************)
(* main                                                                    *)
(***************************************************************************)
\* mutant of MainAfterPrepare: the result of prepare_hl_node is not looked at
MainAfterPrepareIgnoresResult ==
    /\ pc = "returned"
    /\ \E node_args_empty \in BOOLEAN :
          IF node_args_empty
          THEN /\ exit_code' = 0
               /\ pc' = "exited"
          ELSE /\ pc' = "run_node"
               /\ UNCHANGED exit_code
    /\ UNCHANGED <<args, network, ignored_seed_peers, config, fetchVars, speedVars,
                   fileVars, result, io, probeVars, workerVars>>

\* main.rs:169-179: an error of prepare_hl_node is returned from main, which
\* ends the process with status 1: the report is printed and dropped, and
\* with it a NamedTempFile it carries; with no arguments for the node main
\* returns after "setup done"; otherwise it calls run_node
MainAfterPrepare ==
    /\ pc = "returned"
    /\ \E node_args_empty \in BOOLEAN, unlinked \in BOOLEAN :
          IF result = "Err"
          THEN /\ exit_code' = 1
               /\ pc' = "exited"
               /\ IF tmp.held THEN DropTemp(unlinked) ELSE UNCHANGED <<tmp, io>>
          ELSE IF node_args_empty
          THEN /\ exit_code' = 0
               /\ pc' = "exited"
               /\ UNCHANGED <<tmp, io>>
          ELSE /\ pc' = "run_node"
               /\ UNCHANGED <<exit_code, tmp, io>>
    /\ UNCHANGED <<args, network, ignored_seed_peers, config, fetchVars, speedVars,
                   target, result, probeVars, workerVars>>

\* the background tasks run_node spawns for the given options
BackgroundTasks(prune, metrics) ==
    (IF prune THEN {"prune_task"} ELSE {}) \cup
    (IF metrics THEN {"poll_task", "metrics_server"} ELSE {})

\* main.rs:181-240: prune is prune_data_interval.is_some(), metrics is
\* metrics_listen_address.is_some(); cwd is the outcome of current_dir(),
\* started the outcome of exec / spawn of hl-visor.  A failure ends the
\* process with status 1 (exit(1) at line 188, or Err returned through main)
RunNode ==
    /\ pc = "run_node"
    /\ \E prune \in BOOLEAN, metrics \in BOOLEAN, cwd \in BOOLEAN, started \in BOOLEAN :
          IF ~prune /\ ~metrics
          THEN IF started
               THEN /\ io' = [io EXCEPT !.launched = TRUE]
                    /\ pc' = "node"
                    /\ UNCHANGED exit_code
               ELSE /\ exit_code' = 1
                    /\ pc' = "launch_failed"
                    /\ UNCHANGED io
          ELSE IF ~cwd
          THEN /\ exit_code' = 1
               /\ pc' = "launch_failed"
               /\ UNCHANGED io
          ELSE IF started
          THEN /\ io' = [io EXCEPT !.launched = TRUE,
                                   !.tasks = BackgroundTasks(prune, metrics)]
               /\ pc' = "node"
               /\ UNCHANGED exit_code
          ELSE /\ io' = [io EXCEPT !.tasks = BackgroundTasks(prune, metrics)]
               /\ exit_code' = 1
               /\ pc' = "launch_failed"
    /\ UNCHANGED <<args, network, ignored_seed_peers, config, fetchVars, speedVars,
                   fileVars, result, probeVars, workerVars>>

Next ==
    \/ DetermineNetwork
    \/ CheckAge
    \/ FetchApi
    \/ FetchMarkdown
    \/ FetchTestnet
    \/ AppendExtras
    \/ SpawnTasks
    \/ JoinTask
    \/ SpeedtestReturn
    \/ BuildConfig
    \/ CreateTemp
    \/ WriteConfig
    \/ PersistConfig
    \/ MainAfterPrepare
    \/ RunNode

Spec == Init /\ [][Next]_vars

\* every step of main is a step of the one running process, which the
\* scheduler does not stop: a step that can be taken is taken
SpecFair == Spec /\ WF_vars(Next)

(***************************************************************************)
(* SpecProbe: the probe tasks of speedtest_nodes under the semaphore.      *)
(* The tasks are interchangeable, so the state counts how many of them are *)
(* at each position: suspended in acquire, connecting while holding a      *)
(* permit, finished.                                                       *)
(***************************************************************************)
InitProbe ==
    /\ args = [max_age |-> MaxAge, target0 |-> Absent]
    /\ pc = "speedtest"
    /\ network = "Testnet"
    /\ ignored_seed_peers = {}
    /\ config = NewConfig("Testnet")
    /\ all_peers = {}
    /\ sources = NoSources
    /\ seed_nodes = <<>>
    /\ timeout_duration = 0
    /\ joined = 0
    /\ successful_nodes = <<>>
    /\ failed = 0
    /\ n_arg = 0
    /\ tested_seed_nodes = Err
    /\ tmp = NoTemp
    /\ target = Absent
    /\ result = "running"
    /\ exit_code = -1
    /\ io = [NoIo EXCEPT !.fetched = TRUE]
    /\ permits = 0
    /\ p_total \in 1..MaxProbeTasks
    /\ p_waiting = 0
    /\ p_inflight = 0
    /\ p_done = 0
    /\ WorkersIdle

pipelineVars == <<args, network, ignored_seed_peers, config, fetchVars, speedVars,
                  fileVars, result, exit_code, io>>

\* speedtest.rs:63-77: Semaphore::new(concurrency), one task per candidate
ProbeSpawn ==
    /\ pc = "speedtest"
    /\ permits' = concurrency
    /\ p_waiting' = p_total
    /\ pc' = "join"
    /\ UNCHANGED <<pipelineVars, workerVars, p_total, p_inflight, p_done>>

\* mutant of ProbeAcquire: a task goes on without a free permit
ProbeAcquireNoWait ==
    /\ pc = "join"
    /\ p_waiting > 0
    /\ permits' = permits - 1
    /\ p_waiting' = p_waiting - 1
    /\ p_inflight' = p_inflight + 1
    /\ UNCHANGED <<pipelineVars, workerVars, pc, p_total, p_done>>

\* speedtest.rs:71: sem.acquire().await completes only when a permit is free
ProbeAcquire ==
    /\ pc = "join"
    /\ p_waiting > 0
    /\ permits > 0
    /\ permits' = permits - 1
    /\ p_waiting' = p_waiting - 1
    /\ p_inflight' = p_inflight + 1
    /\ UNCHANGED <<pipelineVars, workerVars, pc, p_total, p_done>>

\* mutant of ProbeResolve: the finished task keeps its permit
ProbeResolveKeepsPermit ==
    /\ pc = "join"
    /\ p_inflight > 0
    /\ p_inflight' = p_inflight - 1
    /\ p_done' = p_done + 1
    /\ UNCHANGED <<pipelineVars, workerVars, pc, p_total, p_waiting, permits>>

\* speedtest.rs:72-74: the connection attempt resolves (connected, transport
\* error or timeout), the task ends and _permit is dropped
ProbeResolve ==
    /\ pc = "join"
    /\ p_inflight > 0
    /\ p_inflight' = p_inflight - 1
    /\ p_done' = p_done + 1
    /\ permits' = permits + 1
    /\ UNCHANGED <<pipelineVars, workerVars, pc, p_total, p_waiting>>

\* speedtest.rs:82-129: the loop has awaited every task
ProbeReturn ==
    /\ pc = "join"
    /\ p_done = p_total
    /\ pc' = "tested"
    /\ UNCHANGED <<pipelineVars, probeVars, workerVars>>

NextProbe ==
    \/ ProbeSpawn
    \/ ProbeAcquire
    \/ ProbeResolve
    \/ ProbeReturn

SpecProbe == InitProbe /\ [][NextProbe]_vars

\* the runtime keeps polling the tasks that can run and speedtest_nodes
\* itself: a step that stays possible is taken
SpecProbeFair == SpecProbe /\ WF_vars(NextProbe)

(***************************************************************************)
(* SpecGossip: the end of prepare_hl_node (main.rs:320-357) for longer     *)
(* lists of selected peers than Spec reaches; seed_peers_amount and the    *)
(* number of extra peers are not limited by the program                    *)
(***************************************************************************)
IpOf(i) == IF i % 2 = 1 THEN "10.0.0.1" ELSE "10.0.0.2"

SelectedPeers(chain, k) ==
    [i \in 1..k |->
        HyperliquidSeedPeer(IF i > 1 THEN ManualLabel
                            ELSE IF chain = "Mainnet" THEN ApiLabel ELSE TestnetLabel,
                            IpOf(i))]

InitGossip ==
    /\ args = [max_age |-> MaxAge, target0 |-> Absent]
    /\ network \in Chains
    /\ ignored_seed_peers = {}
    /\ config = NewConfig(network)
    /\ all_peers = {}
    /\ sources = NoSources
    /\ \E k \in 0..MaxSelected :
          /\ seed_nodes = SelectedPeers(network, k)
          /\ n_arg = k
          /\ IF k = 0
             THEN /\ network = "Testnet"
                  /\ pc = "create_temp"
                  /\ tested_seed_nodes = Err
                  /\ io = [NoIo EXCEPT !.fetched = TRUE]
             ELSE /\ pc = "tested"
                  /\ tested_seed_nodes = Ok(seed_nodes)
                  /\ io = [NoIo EXCEPT !.fetched = TRUE, !.probed = TRUE]
    /\ timeout_duration = 0
    /\ joined = 0
    /\ successful_nodes = <<>>
    /\ failed = 0
    /\ tmp = NoTemp
    /\ target = Absent
    /\ result = "running"
    /\ exit_code = -1
    /\ ProbeIdle
    /\ WorkersIdle

NextGossip ==
    \/ BuildConfig
    \/ CreateTemp
    \/ WriteConfig
    \/ PersistConfig
    \/ MainAfterPrepare
    \/ RunNode

SpecGossip == InitGossip /\ [][NextGossip]_vars

(***************************************************************************)
(* SpecPrune: one cycle of run_cleanup (prune.rs) over the data directory. *)
(* A path is the sequence of names below the watched root hl/data.  The    *)
(* recursion of collect_files_recursive is the stack walk, one frame per   *)
(* call; the outcome of every file-system operation is drawn by the step   *)
(* that performs it.                                                       *)
(***************************************************************************)
\* SystemTime::now() at prune.rs:36
PruneNow == PruneOlderThan + 1

\* the watched root, data_path
DataPath == <<>>

DirPaths == {<<"d">>, <<"d", "d">>, <<"e">>}
FilePaths == {<<"f">>, <<"d", "f">>, <<"d", "visor_child_stderr">>, <<"d", "d", "f">>}
\* neither directory nor regular file: a symbolic link, a socket
OtherPaths == {<<"e", "link">>}
PrunePaths == DirPaths \cup FilePaths \cup OtherPaths

\* Path::parent and Path::file_name
Parent(path) == SubSeq(path, 1, Len(path) - 1)
FileName(path) == path[Len(path)]

\* what the file system holds at a path: kind is "dir", "file", "other" or
\* "gone"
Node(kind, mtime) == [kind |-> kind, mtime |-> mtime]

\* the files that are kept whatever their age: the one directly in the data
\* directory and the one named visor_child_stderr
KeptPaths == {<<"f">>, <<"d", "visor_child_stderr">>}

\* the directory trees a cycle may find: the shape is fixed, the
\* modification times of the other regular files vary from older than the
\* threshold to later than now, a kept file is older than the threshold or
\* written just now
Trees ==
    {[path \in PrunePaths |->
         IF path \in DirPaths THEN Node("dir", 0)
         ELSE IF path \in OtherPaths THEN Node("other", 0)
         ELSE Node("file", m[path])] :
       m \in {x \in [FilePaths -> 0..(PruneNow + 1)] :
                 \A path \in KeptPaths : x[path] \in {0, PruneNow}}}

\* what fs::read_dir(dir) iterates over
Entries(t, dir) ==
    {path \in PrunePaths : Parent(path) = dir /\ t[path].kind # "gone"}

\* mutant of ShouldRemove: a file exactly as old as the threshold is removed
ShouldRemoveAtCutoff(modified, now, cutoff_duration) ==
    IF modified > now THEN FALSE ELSE now - modified >= cutoff_duration

\* prune.rs:119-124: now.duration_since(modified) is an error for a
\* modification time later than now
ShouldRemove(modified, now, cutoff_duration) ==
    IF modified > now THEN FALSE ELSE now - modified > cutoff_duration

\* prune.rs:104-128: whether a non-directory entry is pushed to
\* files_to_remove
Marks(node, path, base_path, cutoff_duration, now) ==
    /\ node.kind = "file"
    /\ Parent(path) # base_path
    /\ FileName(path) # "visor_child_stderr"
    /\ ShouldRemove(node.mtime, now, cutoff_duration)

\* a call of collect_files_recursive(current_path, ..) that has not yet
\* opened its directory
Frame(current_path) ==
    [path |-> current_path, opened |-> FALSE, todo |-> {}, subdirs |-> <<>>]

Top == walk[Len(walk)]
SetTop(frame) == [walk EXCEPT ![Len(walk)] = frame]
Pop == SubSeq(walk, 1, Len(walk) - 1)

\* one more read operation may fail in this cycle
CanFail == Cardinality({e \in errors : e.op # "remove_file"}) < MaxFsErrors

FsError(op, path) == [op |-> op, path |-> path]

\* the fixed state of main while the background tasks run: the config file
\* was fresh, run_node spawned the tasks that are configured and launched
\* hl-visor
NodeRunning(prune, metrics) ==
    /\ args = [max_age |-> MaxAge, target0 |-> RegularFile(NowTime, OldDoc)]
    /\ pc = "node"
    /\ network = "Mainnet"
    /\ ignored_seed_peers = {}
    /\ config = NewConfig(None)
    /\ all_peers = {}
    /\ sources = NoSources
    /\ seed_nodes = <<>>
    /\ timeout_duration = 0
    /\ joined = 0
    /\ successful_nodes = <<>>
    /\ failed = 0
    /\ n_arg = 0
    /\ tested_seed_nodes = Err
    /\ tmp = NoTemp
    /\ target = args.target0
    /\ result = "Ok"
    /\ exit_code = -1
    /\ io = [NoIo EXCEPT !.launched = TRUE, !.tasks = BackgroundTasks(prune, metrics)]
    /\ ProbeIdle
    /\ TasksIdle
    /\ ParseIdle
    /\ ReplayIdle

\* main waits for the child and the task was spawned and has not ended
Running(task) == pc = "node" /\ task \in io.tasks /\ task \notin ended

InitPrune ==
    /\ NodeRunning(TRUE, FALSE)
    /\ tree0 \in Trees
    /\ tree = tree0
    /\ cleanup_pc = "idle"
    /\ walk = <<>>
    /\ files_to_remove = <<>>
    /\ rm_iter = <<>>
    /\ removed = 0
    /\ failed_rm = 0
    /\ attempted = <<>>
    /\ errors = {}
    /\ cleanup_result = "running"
    /\ prune_due = 0
    /\ MonitorIdle

outsidePrune == <<pc, pipelineVars, probeVars, monitorVars, taskVars, parseVars, replayVars>>

\* prune.rs:34-48: run_cleanup starts the walk at data_path
StartCleanup ==
    /\ Running("prune_task")
    /\ cleanup_pc = "idle"
    /\ walk' = <<Frame(DataPath)>>
    /\ files_to_remove' = <<>>
    /\ cleanup_pc' = "walk"
    /\ UNCHANGED <<outsidePrune, tree0, tree, rm_iter, removed, failed_rm, attempted,
                   errors, cleanup_result, prune_due>>

\* a call of collect_files_recursive returns Ok(()) to its caller; the
\* outermost call returns to run_cleanup, which goes on at prune.rs:50-53
ReturnOk(stack) ==
    /\ walk' = stack
    /\ IF stack = <<>>
       THEN /\ removed' = 0
            /\ failed_rm' = 0
            /\ rm_iter' = files_to_remove
            /\ cleanup_pc' = "remove"
       ELSE UNCHANGED <<removed, failed_rm, rm_iter, cleanup_pc>>

\* prune.rs:78-86: fs::read_dir(current_path); on failure the call returns
\* Ok(()) at once
ReadDir ==
    /\ Running("prune_task")
    /\ cleanup_pc = "walk"
    /\ walk # <<>>
    /\ ~Top.opened
    /\ \E ok \in BOOLEAN :
          /\ ok \/ CanFail
          /\ IF ok
             THEN /\ walk' = SetTop([Top EXCEPT !.opened = TRUE,
                                                !.todo = Entries(tree, Top.path)])
                  /\ UNCHANGED <<errors, removed, failed_rm, rm_iter, cleanup_pc>>
             ELSE /\ errors' = errors \cup {FsError("read_dir", Top.path)}
                  /\ ReturnOk(Pop)
    /\ UNCHANGED <<outsidePrune, tree0, tree, files_to_remove, attempted, cleanup_result,
                   prune_due>>

\* prune.rs:88-129: one iteration of the loop over the entries, which the
\* directory yields in no particular order.  entry? (line 89) returns the
\* error from the call, and the ? at lines 140 and 48 return it from every
\* caller up to run_cleanup
NextEntry ==
    /\ Running("prune_task")
    /\ cleanup_pc = "walk"
    /\ walk # <<>>
    /\ Top.opened
    /\ Top.todo # {}
    /\ \E path \in Top.todo, outcome \in {"ok", "entry_err", "metadata_err"} :
          /\ outcome = "ok" \/ CanFail
          /\ IF outcome = "entry_err"
             THEN /\ errors' = errors \cup {FsError("entry", Top.path)}
                  /\ walk' = <<>>
                  /\ cleanup_result' = "Err"
                  /\ cleanup_pc' = "done"
                  /\ prune_due' \in 0..MaxMissedTicks
                  /\ UNCHANGED files_to_remove
             ELSE IF outcome = "metadata_err"
             THEN /\ errors' = errors \cup {FsError("metadata", path)}
                  /\ walk' = SetTop([Top EXCEPT !.todo = @ \ {path}])
                  /\ UNCHANGED <<files_to_remove, cleanup_result, cleanup_pc, prune_due>>
             ELSE /\ IF tree[path].kind = "dir"
                     THEN /\ walk' = SetTop([Top EXCEPT !.todo = @ \ {path},
                                                        !.subdirs = Append(@, path)])
                          /\ UNCHANGED files_to_remove
                     ELSE /\ walk' = SetTop([Top EXCEPT !.todo = @ \ {path}])
                          /\ files_to_remove' =
                                IF Marks(tree[path], path, DataPath, PruneOlderThan, PruneNow)
                                THEN Append(files_to_remove, path)
                                ELSE files_to_remove
                  /\ UNCHANGED <<errors, cleanup_result, cleanup_pc, prune_due>>
    /\ UNCHANGED <<outsidePrune, tree0, tree, rm_iter, removed, failed_rm, attempted>>

\* prune.rs:132-141: the next subdirectory is walked by a recursive call
Descend ==
    /\ Running("prune_task")
    /\ cleanup_pc = "walk"
    /\ walk # <<>>
    /\ Top.opened
    /\ Top.todo = {}
    /\ Top.subdirs # <<>>
    /\ walk' = Append(SetTop([Top EXCEPT !.subdirs = Tail(@)]), Frame(Head(Top.subdirs)))
    /\ UNCHANGED <<outsidePrune, tree0, tree, cleanup_pc, files_to_remove, rm_iter,
                   removed, failed_rm, attempted, errors, cleanup_result, prune_due>>

\* prune.rs:143
ReturnFromDir ==
    /\ Running("prune_task")
    /\ cleanup_pc = "walk"
    /\ walk # <<>>
    /\ Top.opened
    /\ Top.todo = {}
    /\ Top.subdirs = <<>>
    /\ ReturnOk(Pop)
    /\ UNCHANGED <<outsidePrune, tree0, tree, files_to_remove, attempted, errors,
                   cleanup_result, prune_due>>

\* mutant of RemoveFile: the first failed deletion ends the loop
RemoveFileStopsOnFailure ==
    /\ Running("prune_task")
    /\ cleanup_pc = "remove"
    /\ rm_iter # <<>>
    /\ LET file_path == Head(rm_iter)
       IN  /\ attempted' = Append(attempted, file_path)
           /\ \E ok \in BOOLEAN :
                 IF ok
                 THEN /\ tree' = [tree EXCEPT ![file_path] = Node("gone", 0)]
                      /\ removed' = removed + 1
                      /\ rm_iter' = Tail(rm_iter)
                      /\ UNCHANGED <<failed_rm, errors>>
                 ELSE /\ failed_rm' = failed_rm + 1
                      /\ errors' = errors \cup {FsError("remove_file", file_path)}
                      /\ rm_iter' = <<>>
                      /\ UNCHANGED <<tree, removed>>
    /\ UNCHANGED <<outsidePrune, tree0, cleanup_pc, walk, files_to_remove, cleanup_result,
                   prune_due>>

\* prune.rs:53-64: one iteration of the deletion loop
RemoveFile ==
    /\ Running("prune_task")
    /\ cleanup_pc = "remove"
    /\ rm_iter # <<>>
    /\ LET file_path == Head(rm_iter)
       IN  /\ attempted' = Append(attempted, file_path)
           /\ rm_iter' = Tail(rm_iter)
           /\ \E ok \in BOOLEAN :
                 IF ok
                 THEN /\ tree' = [tree EXCEPT ![file_path] = Node("gone", 0)]
                      /\ removed' = removed + 1
                      /\ UNCHANGED <<failed_rm, errors>>
                 ELSE /\ failed_rm' = failed_rm + 1
                      /\ errors' = errors \cup {FsError("remove_file", file_path)}
                      /\ UNCHANGED <<tree, removed>>
    /\ UNCHANGED <<outsidePrune, tree0, cleanup_pc, walk, files_to_remove, cleanup_result,
                   prune_due>>

\* prune.rs:66-68: run_cleanup returns Ok; up to MaxMissedTicks deadlines of
\* the interval have passed while the cycle ran
PruneComplete ==
    /\ Running("prune_task")
    /\ cleanup_pc = "remove"
    /\ rm_iter = <<>>
    /\ cleanup_result' = "Ok"
    /\ cleanup_pc' = "done"
    /\ prune_due' \in 0..MaxMissedTicks
    /\ UNCHANGED <<outsidePrune, tree0, tree, walk, files_to_remove, rm_iter, removed,
                   failed_rm, attempted, errors>>

\* prune.rs:16-17, 26: the worker waits in interval.tick() and the next
\* deadline of the interval passes
PruneTimerFires ==
    /\ Running("prune_task")
    /\ cleanup_pc = "done"
    /\ prune_due = 0
    /\ prune_due' = 1
    /\ UNCHANGED <<outsidePrune, tree0, tree, cleanup_pc, walk, files_to_remove, rm_iter,
                   removed, failed_rm, attempted, errors, cleanup_result>>

\* mutant of PruneTick: the loop goes on only after a cycle that returned Ok
PruneTickAfterOk ==
    /\ Running("prune_task")
    /\ cleanup_pc = "done"
    /\ cleanup_result = "Ok"
    /\ prune_due > 0
    /\ prune_due' = 0
    /\ tree0' = tree
    /\ UNCHANGED tree
    /\ cleanup_pc' = "idle"
    /\ walk' = <<>>
    /\ files_to_remove' = <<>>
    /\ rm_iter' = <<>>
    /\ removed' = 0
    /\ failed_rm' = 0
    /\ attempted' = <<>>
    /\ errors' = {}
    /\ cleanup_result' = "running"
    /\ UNCHANGED outsidePrune

\* prune.rs:19-31: the result of the cycle is logged when it is an error and
\* interval.tick() returns for a deadline that has passed; with
\* MissedTickBehavior::Skip the other passed deadlines are dropped.  The
\* locals of run_cleanup are gone; the next cycle meets the tree the last
\* one left
PruneTick ==
    /\ Running("prune_task")
    /\ cleanup_pc = "done"
    /\ prune_due > 0
    /\ prune_due' = 0
    /\ tree0' = tree
    /\ UNCHANGED tree
    /\ cleanup_pc' = "idle"
    /\ walk' = <<>>
    /\ files_to_remove' = <<>>
    /\ rm_iter' = <<>>
    /\ removed' = 0
    /\ failed_rm' = 0
    /\ attempted' = <<>>
    /\ errors' = {}
    /\ cleanup_result' = "running"
    /\ UNCHANGED outsidePrune

NextPrune ==
    \/ StartCleanup
    \/ ReadDir
    \/ NextEntry
    \/ Descend
    \/ ReturnFromDir
    \/ RemoveFile
    \/ PruneComplete
    \/ PruneTimerFires
    \/ PruneTick

SpecPrune == InitPrune /\ [][NextPrune]_vars

(***************************************************************************)
(* SpecMonitor: the health poller poll_node (monitor/mod.rs) and the       *)
(* handlers of the health server (monitor/server.rs).  A step of a task is *)
(* the code between two awaits; the gauges are atomics shared by the       *)
(* poller, which writes them, and the handlers, which read them.  The f64  *)
(* of a gauge holds a number of milliseconds; the model keeps it as the    *)
(* number of units, which an f64 holds exactly.                            *)
(***************************************************************************)
\* the wall clock is read as 0..MaxSystemTime units
MaxSystemTime == MaxNodeTime * UnitsPerMs + 1

\* Duration::from_millis
DurationFromMillis(time) == time * UnitsPerMs

\* a subtraction that is not clamped at zero
SubUnclamped(a, b) == a - b

\* Duration::saturating_sub
SaturatingSub(a, b) == IF a > b THEN a - b ELSE 0

\* f64::max(0.0) of a difference
MaxZero(x) == IF x > 0 THEN x ELSE 0

HttpResponse(endpoint, status) == [endpoint |-> endpoint, status |-> status]

InitMonitor ==
    /\ NodeRunning(FALSE, TRUE)
    /\ CleanupIdle
    /\ healthy_drift_threshold \in 0..MaxThreshold
    /\ poll_pc = "tick"
    /\ system_now = 0
    /\ poll_n = 1
    /\ gauge_responding = 0
    /\ gauge_system_time = 0
    /\ gauge_node_time = 0
    /\ drift_sample = NoneOpt
    /\ last_tick = NoneOpt
    /\ response = NoResponse
    /\ poll_due = 1
    /\ info_exchange = NoExchange

outsideMonitor == <<pc, pipelineVars, probeVars, cleanupVars, taskVars, parseVars, replayVars>>

\* mutant of PollTick: MissedTickBehavior::Burst, every passed deadline is
\* delivered
PollTickBurst ==
    /\ Running("poll_task")
    /\ poll_pc = "tick"
    /\ poll_due > 0
    /\ poll_due' = poll_due - 1
    /\ system_now' \in 0..MaxSystemTime
    /\ gauge_system_time' = system_now'
    /\ poll_pc' = "request"
    /\ UNCHANGED <<outsideMonitor, healthy_drift_threshold, poll_n, gauge_responding,
                   gauge_node_time, drift_sample, last_tick, response, info_exchange>>

\* monitor/mod.rs:91-98: interval.tick() returns for a deadline that has
\* passed (with MissedTickBehavior::Skip the other passed deadlines are
\* dropped), the wall clock is sampled and published, the status request is
\* sent
PollTick ==
    /\ Running("poll_task")
    /\ poll_pc = "tick"
    /\ poll_due > 0
    /\ poll_due' = 0
    /\ system_now' \in 0..MaxSystemTime
    /\ gauge_system_time' = system_now'
    /\ poll_pc' = "request"
    /\ UNCHANGED <<outsideMonitor, healthy_drift_threshold, poll_n, gauge_responding,
                   gauge_node_time, drift_sample, last_tick, response, info_exchange>>

\* monitor/mod.rs:86-87, 91: the poller waits in interval.tick() and the
\* next deadline of the interval passes
PollTimerFires ==
    /\ Running("poll_task")
    /\ poll_pc = "tick"
    /\ poll_due = 0
    /\ poll_due' = 1
    /\ UNCHANGED <<outsideMonitor, healthy_drift_threshold, poll_pc, system_now, poll_n,
                   gauge_responding, gauge_system_time, gauge_node_time, drift_sample,
                   last_tick, response, info_exchange>>

\* mutant of PollResolve: a failed request leaves the responding flag alone
PollResolveKeepsFlag ==
    /\ Running("poll_task")
    /\ poll_pc = "request"
    /\ \E kind \in {"ok", "request_err", "other_err"}, time \in 0..MaxNodeTime :
          IF kind = "ok"
          THEN LET exchange_now == DurationFromMillis(time)
               IN  /\ gauge_responding' = 1
                   /\ gauge_node_time' = exchange_now
                   /\ drift_sample' = Some(SaturatingSub(system_now, exchange_now))
                   /\ last_tick' = Some(TRUE)
                   /\ UNCHANGED poll_n
          ELSE /\ poll_n' = IF kind = "request_err" THEN poll_n
                            ELSE IF poll_n % WarnEvery = 0 THEN 1 ELSE poll_n + 1
               /\ last_tick' = Some(FALSE)
               /\ UNCHANGED <<gauge_responding, gauge_node_time, drift_sample>>
    /\ system_now' = 0
    /\ poll_pc' = "tick"
    /\ poll_due' \in 0..MaxMissedTicks
    /\ UNCHANGED <<outsideMonitor, healthy_drift_threshold, gauge_system_time, response,
                   info_exchange>>

\* monitor/mod.rs:98-121: request_exchange_time resolves (the client has a
\* timeout of 100 ms, line 59) with the time the node reports, with an error
\* of sending the request, or with another error (status, body); the tick
\* ends and the local system_now is dead.  Up to MaxMissedTicks deadlines of
\* the interval have passed since the tick
PollResolve ==
    /\ Running("poll_task")
    /\ poll_pc = "request"
    /\ \E kind \in {"ok", "request_err", "other_err"}, time \in 0..MaxNodeTime :
          IF kind = "ok"
          THEN LET exchange_now == DurationFromMillis(time)
               IN  /\ gauge_responding' = 1
                   /\ gauge_node_time' = exchange_now
                   /\ drift_sample' = Some(SaturatingSub(system_now, exchange_now))
                   /\ last_tick' = Some(TRUE)
                   /\ UNCHANGED poll_n
          ELSE /\ poll_n' = IF kind = "request_err" THEN poll_n
                            ELSE IF poll_n % WarnEvery = 0 THEN 1 ELSE poll_n + 1
               /\ gauge_responding' = 0
               /\ last_tick' = Some(FALSE)
               /\ UNCHANGED <<gauge_node_time, drift_sample>>
    /\ system_now' = 0
    /\ poll_pc' = "tick"
    /\ poll_due' \in 0..MaxMissedTicks
    /\ UNCHANGED <<outsideMonitor, healthy_drift_threshold, gauge_system_time, response,
                   info_exchange>>

\* monitor/server.rs:48-54
Livez ==
    /\ Running("metrics_server")
    /\ response = NoResponse
    /\ response' = HttpResponse("/livez", IF gauge_responding = 1 THEN 200 ELSE 503)
    /\ UNCHANGED <<outsideMonitor, healthy_drift_threshold, poll_pc, system_now, poll_n,
                   gauge_responding, gauge_system_time, gauge_node_time, drift_sample,
                   last_tick, poll_due, info_exchange>>

\* mutant of Readyz: a drift equal to the threshold is healthy
ReadyzAtThreshold ==
    /\ Running("metrics_server")
    /\ response = NoResponse
    /\ response' = HttpResponse("/readyz",
          IF /\ gauge_responding = 1
             /\ MaxZero(gauge_system_time - gauge_node_time) <= healthy_drift_threshold
          THEN 200 ELSE 503)
    /\ UNCHANGED <<outsideMonitor, healthy_drift_threshold, poll_pc, system_now, poll_n,
                   gauge_responding, gauge_system_time, gauge_node_time, drift_sample,
                   last_tick, poll_due, info_exchange>>

\* monitor/server.rs:56-68
Readyz ==
    /\ Running("metrics_server")
    /\ response = NoResponse
    /\ response' = HttpResponse("/readyz",
          IF /\ gauge_responding = 1
             /\ MaxZero(gauge_system_time - gauge_node_time) < healthy_drift_threshold
          THEN 200 ELSE 503)
    /\ UNCHANGED <<outsideMonitor, healthy_drift_threshold, poll_pc, system_now, poll_n,
                   gauge_responding, gauge_system_time, gauge_node_time, drift_sample,
                   last_tick, poll_due, info_exchange>>

\* the client takes the answer; the server is ready for the next request
ClientReceive ==
    /\ response # NoResponse
    /\ response' = NoResponse
    /\ info_exchange' = NoExchange
    /\ UNCHANGED <<outsideMonitor, healthy_drift_threshold, poll_pc, system_now, poll_n,
                   gauge_responding, gauge_system_time, gauge_node_time, drift_sample,
                   last_tick, poll_due>>

NextMonitor ==
    \/ PollTick
    \/ PollTimerFires
    \/ PollResolve
    \/ Livez
    \/ Readyz
    \/ ClientReceive

SpecMonitor == InitMonitor /\ [][NextMonitor]_vars

(***************************************************************************)
(* SpecProxy: the /info endpoint of the health server                      *)
(* (monitor/server.rs:70-142).  The handler reads no gauge, so the steps   *)
(* of the poller are left out.                                             *)
(***************************************************************************)
Bytes == {0, 255}
Bodies == BoundedSeq(Bytes, MaxBodyLen)

\* a header; text tells whether HeaderValue::to_str accepts the value
Header(name, text) == [name |-> name, text |-> text]

\* the headers a client may send and the node may answer with
RequestHeaders == {Header("host", TRUE), Header("content-type", TRUE), Header("x-raw", FALSE)}
ResponseHeaders == {Header("content-type", TRUE), Header("x-raw", FALSE)}

\* monitor/server.rs:88-96: the headers copied to the other side
CopiedHeaders(headers, excluded) ==
    {h \in headers : h.name \notin excluded /\ h.text}

\* what the node does with the proxied request: no answer (refused,
\* timeout), or a status with headers and a body, which may break off
UpstreamOutcomes ==
    {[kind |-> "unreachable", status |-> 0, headers |-> {}, body |-> <<>>, complete |-> FALSE]}
    \cup [kind : {"answered"}, status : {200, 500}, headers : SUBSET ResponseHeaders,
          body : Bodies, complete : BOOLEAN]

\* mutant of ProxyRequest: every request is proxied as a POST
ProxyRequestAsPost(method, headers, body) ==
    [method |-> "POST", url |-> "/info",
     headers |-> CopiedHeaders(headers, {"host", "connection", "content-length"}),
     body |-> body]

\* monitor/server.rs:71, 85-96: the proxied request
ProxyRequest(method, headers, body) ==
    [method |-> method, url |-> "/info",
     headers |-> CopiedHeaders(headers, {"host", "connection", "content-length"}),
     body |-> body]

\* monitor/server.rs:70-142, routed for GET and POST (lines 31-32)
ProxyInfo ==
    /\ Running("metrics_server")
    /\ response = NoResponse
    /\ \E method \in {"GET", "POST"}, headers \in SUBSET RequestHeaders, body \in Bodies,
          readable \in BOOLEAN, up \in UpstreamOutcomes :
          LET received == [NoExchange EXCEPT !.method = method, !.headers = headers,
                                            !.body = body]
              sent == [received EXCEPT !.forwarded = Some(ProxyRequest(method, headers, body)),
                                       !.upstream = Some(up)]
          IN  IF ~readable
              THEN /\ response' = HttpResponse("/info", 400)
                   /\ info_exchange' = [received EXCEPT !.reply = <<"Failed to read request body">>]
              ELSE IF up.kind = "unreachable"
              THEN /\ response' = HttpResponse("/info", 502)
                   /\ info_exchange' = [sent EXCEPT !.reply = <<"Failed to connect to node">>]
              ELSE IF ~up.complete
              THEN /\ response' = HttpResponse("/info", 502)
                   /\ info_exchange' = [sent EXCEPT !.reply = <<"Failed to read response body">>]
              ELSE /\ response' = HttpResponse("/info", up.status)
                   /\ info_exchange' = [sent EXCEPT !.reply = up.body,
                                                    !.reply_headers = CopiedHeaders(up.headers, {})]
    /\ UNCHANGED <<outsideMonitor, healthy_drift_threshold, poll_pc, system_now, poll_n,
                   gauge_responding, gauge_system_time, gauge_node_time, drift_sample,
                   last_tick, poll_due>>

NextProxy ==
    \/ ProxyInfo
    \/ ClientReceive

SpecProxy == InitMonitor /\ [][NextProxy]_vars

(***************************************************************************)
(* SpecConfig: a gossip configuration document is parsed into an           *)
(* OverrideGossipConfig and written again (hl_gossip_config.rs:8-31; the   *)
(* test at lines 288-305 and fetch_testnet_seed_peers parse one, main.rs   *)
(* writes one).  A document is the sequence of its top-level members       *)
(* between the braces.                                                     *)
(***************************************************************************)
KnownKeys == {"root_node_ips", "try_new_peers", "chain", "n_gossip_peers"}

\* the keys of the members this program does not know, in the order of the
\* map of serde_json::Value
UnknownKeyOrder == <<"reserved_peer_ips", "zz_extra">>

\* the numbers a document may give for n_gossip_peers: the last one does not
\* fit a u16
NumberTexts == {GossipPeersThreshold, 65535, 65536}

\* the state of everything but the parser while a document is parsed
ParserOnly ==
    /\ args = [max_age |-> MaxAge, target0 |-> Absent]
    /\ network = None
    /\ all_peers = {}
    /\ sources = NoSources
    /\ seed_nodes = <<>>
    /\ timeout_duration = 0
    /\ joined = 0
    /\ successful_nodes = <<>>
    /\ failed = 0
    /\ n_arg = 0
    /\ tested_seed_nodes = Err
    /\ tmp = NoTemp
    /\ target = Absent
    /\ result = "running"
    /\ exit_code = -1
    /\ io = NoIo
    /\ ProbeIdle
    /\ CleanupIdle
    /\ MonitorIdle
    /\ TasksIdle

\* the members of a document, without the braces
Members(document) == SubSeq(document, 2, Len(document) - 1)

Occurrences(document, key) ==
    Cardinality({i \in 1..Len(document) : document[i].k = key})

\* the value of the last member with this key
LastValueOf(document, key) ==
    LET last == CHOOSE i \in 1..Len(document) :
                   /\ document[i].k = key
                   /\ \A j \in (i + 1)..Len(document) : document[j].k # key
    IN  document[last].v

\* the members with unknown keys as the flattened Value keeps them: one per
\* key, in the order of its map, the last of several with one key
UnknownMembers(document) ==
    LET present == SelectSeq(UnknownKeyOrder, LAMBDA k : HasKey(document, k))
    IN  [i \in 1..Len(present) |-> Token(present[i], LastValueOf(document, present[i]))]

\* a JSON number that fits a u16
ParsesAsU16(text) == \E number \in 0..65535 : number \in NumberTexts /\ ToString(number) = text

ParseU16(text) == CHOOSE number \in NumberTexts : ToString(number) = text

\* mutant of Deserialize: the members with unknown keys are dropped
DeserializeDropsUnknown(document) ==
    LET has(key) == HasKey(document, key)
        val(key) == ValueOf(document, key)
    IN  IF \E key \in KnownKeys : Occurrences(document, key) > 1 THEN Err
        ELSE IF ~has("chain") \/ val("chain") \notin {<<c>> : c \in Chains} THEN Err
        ELSE IF has("try_new_peers") /\ val("try_new_peers") \notin {<<"true">>, <<"false">>}
        THEN Err
        ELSE IF has("root_node_ips") /\ \E ip \in Range(val("root_node_ips")) : ~ParsesAsIpv4(ip)
        THEN Err
        ELSE IF /\ has("n_gossip_peers")
                /\ val("n_gossip_peers") # <<"null">>
                /\ ~ParsesAsU16(val("n_gossip_peers")[1])
        THEN Err
        ELSE Ok([root_node_ips |->
                     IF has("root_node_ips")
                     THEN [i \in 1..Len(val("root_node_ips")) |-> [Ip |-> val("root_node_ips")[i]]]
                     ELSE <<>>,
                 try_new_peers |-> has("try_new_peers") /\ val("try_new_peers") = <<"true">>,
                 chain |-> val("chain")[1],
                 n_gossip_peers |->
                     IF has("n_gossip_peers") /\ val("n_gossip_peers") # <<"null">>
                     THEN Some(ParseU16(val("n_gossip_peers")[1]))
                     ELSE NoneOpt,
                 unknown |-> <<>>])

\* serde's Deserialize of OverrideGossipConfig (hl_gossip_config.rs:8-31): a
\* known key may occur once; chain is required and names a chain;
\* root_node_ips and try_new_peers default to empty and false; n_gossip_peers
\* is None when missing or null; every other member goes to unknown
Deserialize(document) ==
    LET has(key) == HasKey(document, key)
        val(key) == ValueOf(document, key)
    IN  IF \E key \in KnownKeys : Occurrences(document, key) > 1 THEN Err
        ELSE IF ~has("chain") \/ val("chain") \notin {<<c>> : c \in Chains} THEN Err
        ELSE IF has("try_new_peers") /\ val("try_new_peers") \notin {<<"true">>, <<"false">>}
        THEN Err
        ELSE IF has("root_node_ips") /\ \E ip \in Range(val("root_node_ips")) : ~ParsesAsIpv4(ip)
        THEN Err
        ELSE IF /\ has("n_gossip_peers")
                /\ val("n_gossip_peers") # <<"null">>
                /\ ~ParsesAsU16(val("n_gossip_peers")[1])
        THEN Err
        ELSE Ok([root_node_ips |->
                     IF has("root_node_ips")
                     THEN [i \in 1..Len(val("root_node_ips")) |-> [Ip |-> val("root_node_ips")[i]]]
                     ELSE <<>>,
                 try_new_peers |-> has("try_new_peers") /\ val("try_new_peers") = <<"true">>,
                 chain |-> val("chain")[1],
                 n_gossip_peers |->
                     IF has("n_gossip_peers") /\ val("n_gossip_peers") # <<"null">>
                     THEN Some(ParseU16(val("n_gossip_peers")[1]))
                     ELSE NoneOpt,
                 unknown |-> UnknownMembers(Members(document))])

\* zero or one member with the key, for each of the values
OptionalMember(key, values) == {<<>>} \cup {<<Token(key, v)>> : v \in values}

\* the documents that are parsed: each known member is missing, well-formed
\* or ill-formed; up to two unknown members stand before or after them
Documents ==
    {<<Token("{", <<>>)>> \o before \o ips \o try \o chain \o number \o after
        \o <<Token("}", <<>>)>> :
       before \in OptionalMember("zz_extra", {<<"1">>}),
       ips \in OptionalMember("root_node_ips",
                  {<<>>, <<"10.0.0.1">>, <<"10.0.0.2", "10.0.0.1">>, <<"not-an-ip">>}),
       try \in OptionalMember("try_new_peers", {<<"true">>, <<"false">>}),
       chain \in OptionalMember("chain", {<<"Mainnet">>, <<"Testnet">>, <<"Othernet">>}),
       number \in OptionalMember("n_gossip_peers",
                     {<<"null">>} \cup {<<ToString(number)>> : number \in NumberTexts}),
       after \in OptionalMember("reserved_peer_ips", {<<"5.6.7.8">>})}

InitConfig ==
    /\ ParserOnly
    /\ ReplayIdle
    /\ ignored_seed_peers = {}
    /\ pc = "parse"
    /\ config = NewConfig(None)
    /\ config_snippet \in Documents
    /\ serialized = <<>>
    /\ peers_content = <<>>
    /\ md_result = Err

outsideConfig == <<args, network, ignored_seed_peers, fetchVars, speedVars, fileVars,
                   result, exit_code, io, probeVars, cleanupVars, monitorVars, taskVars, replayVars,
                   peers_content, md_result>>

\* hl_gossip_config.rs:299 (serde_json::from_str) and 256-262 (json())
ParseConfig ==
    /\ pc = "parse"
    /\ LET parsed == Deserialize(config_snippet)
       IN  IF parsed.ok
           THEN /\ config' = parsed.val
                /\ pc' = "parsed"
           ELSE /\ pc' = "parse_failed"
                /\ UNCHANGED config
    /\ UNCHANGED <<outsideConfig, config_snippet, serialized>>

\* hl_gossip_config.rs:301 (serde_json::to_string_pretty)
SerializeConfig ==
    /\ pc = "parsed"
    /\ serialized' = Serialize(config)
    /\ pc' = "serialized"
    /\ UNCHANGED <<outsideConfig, config, config_snippet>>

\* the written document is the one that is parsed next
LoadAgain ==
    /\ pc = "serialized"
    /\ config_snippet # serialized
    /\ config_snippet' = serialized
    /\ serialized' = <<>>
    /\ pc' = "parse"
    /\ UNCHANGED <<outsideConfig, config>>

NextConfig ==
    \/ ParseConfig
    \/ SerializeConfig
    \/ LoadAgain

SpecConfig == InitConfig /\ [][NextConfig]_vars

(***************************************************************************)
(* SpecTable: fetch_mainnet_seed_peers_markdown_table                      *)
(* (hl_gossip_config.rs:161-250) over the lines of any located section,    *)
(* or with no such section in the README.                                  *)
(***************************************************************************)
\* the lines a section is made of: a row has no, one, two or three cells;
\* its first cell may mention "operator" and its second cell may be an
\* address
SectionLines ==
    {Line("blank", <<>>), Line("text", <<>>), Line("sep", <<>>)}
    \cup {Line("row", cells) :
             cells \in {<<"x">>, HeaderCells, <<"opA", "10.0.0.1">>, <<"opA", "10.0.0.2">>,
                        <<"opA", "x">>, <<"Operator", "10.0.0.1">>, <<"opA", "10.0.0.2", "x">>}}

InitTable ==
    /\ ParserOnly
    /\ ReplayIdle
    /\ ignored_seed_peers \in {{}, {"10.0.0.1"}}
    /\ pc = "parse_table"
    /\ config = NewConfig(None)
    /\ peers_content \in {Err} \cup {Ok(section) : section \in BoundedSeq(SectionLines, MaxLines)}
    /\ md_result = Err
    /\ config_snippet = <<>>
    /\ serialized = <<>>

\* hl_gossip_config.rs:161-250, after the README has been fetched
ParseTable ==
    /\ pc = "parse_table"
    /\ md_result' = FetchMainnetSeedPeersMarkdownTable(peers_content, ignored_seed_peers)
    /\ pc' = "table_parsed"
    /\ UNCHANGED <<args, network, ignored_seed_peers, config, fetchVars, speedVars, fileVars,
                   result, exit_code, io, probeVars, cleanupVars, monitorVars, taskVars, replayVars,
                   peers_content, config_snippet, serialized>>

\* the parsed section is looked at; nothing changes any more
TableDone ==
    /\ pc = "table_parsed"
    /\ pc' = "table_done"
    /\ UNCHANGED <<args, network, ignored_seed_peers, config, fetchVars, speedVars, fileVars,
                   result, exit_code, io, probeVars, workerVars>>

NextTable ==
    \/ ParseTable
    \/ TableDone

SpecTable == InitTable /\ [][NextTable]_vars

(***************************************************************************)
(* SpecReplay: the pipeline of prepare_hl_node from the fetch to the       *)
(* persisted root_node_ips, run several times by separate processes on the *)
(* same answers of the sources, the same arguments and the same outcome of *)
(* the connection attempt to each address.  Only what differs between two  *)
(* processes is left open: the seed of the HashSet's hasher.               *)
(***************************************************************************)
ListedResponses == {Err} \cup {Ok(b) : b \in BoundedSeq(IPs, MaxListed)}

TableResponses ==
    {Err} \cup {Ok(<<Line("row", HeaderCells), Line("sep", <<>>)>> \o rows) :
                    rows \in BoundedSeq(RowLines, MaxListed)}

\* what the sources answer: two of them on Mainnet, one on Testnet
SourceAnswers ==
    [chain : {"Mainnet"}, api : ListedResponses, md : TableResponses, testnet : {Err}]
    \cup [chain : {"Testnet"}, api : {Err}, md : {Err}, testnet : ListedResponses]

\* fetch_hyperliquid_seed_peers (hl_gossip_config.rs:81-110): the results it
\* may return for these answers; Vec::from_iter(all_peers) walks the HashSet
\* in the order given by the seed of this process's hasher
FetchHyperliquidSeedPeers(answers, ignored) ==
    IF answers.chain = "Mainnet"
    THEN LET api == FetchMainnetSeedPeersApi(answers.api, ignored)
             md == FetchMainnetSeedPeersMarkdownTable(answers.md, ignored)
             from_api == IF api.ok THEN Extend({}, api.val) ELSE {}
             all == IF md.ok THEN Extend(from_api, md.val) ELSE from_api
         IN  IF all = {} THEN {Err} ELSE {Ok(order) : order \in Orderings(all)}
    ELSE {FetchTestnetSeedPeers(answers.testnet, ignored)}

\* main.rs:306-318
WithExtras(seeds, seed_peers_extra) ==
    seeds \o [i \in 1..Len(seed_peers_extra) |->
                 HyperliquidSeedPeer(ManualLabel, seed_peers_extra[i])]

\* speedtest.rs:66-96: the (idx, latency) pairs of the probes that succeeded,
\* in the order of the candidates; conn gives what connect does per address
SuccessfulNodes(cands, conn, timeout) ==
    LET ok(idx) == MeasureNodeLatency(conn[cands[idx].ip], timeout).ok
        passed == SelectSeq([idx \in 1..Len(cands) |-> idx], ok)
    IN  [k \in 1..Len(passed) |->
            <<passed[k], MeasureNodeLatency(conn[cands[passed[k]].ip], timeout).latency>>]

\* main.rs:303-357 for one fetch result: Err when prepare_hl_node fails,
\* otherwise the root_node_ips of the file it persists (no file-system
\* failure is considered here)
PersistedRootNodeIps(inputs, fetched) ==
    IF ~fetched.ok THEN Err
    ELSE LET seed_list == WithExtras(fetched.val, inputs.extra)
             tested == SpeedtestResult(seed_list,
                           SuccessfulNodes(seed_list, inputs.conn, inputs.timeout), inputs.n)
             cfg == PushSeeds(NewConfig(inputs.answers.chain), tested.val)
         IN  IF seed_list = <<>> THEN Ok(<<>>)
             ELSE IF tested.val = <<>> THEN Err
             ELSE Ok(ValueOf(Serialize(AdjustGossipPeers(cfg)), "root_node_ips"))

InitReplay ==
    /\ ParserOnly
    /\ ParseIdle
    /\ pc = "replay"
    /\ config = NewConfig(None)
    /\ ignored_seed_peers \in {{}, {"10.0.0.1"}}
    /\ run_inputs \in [answers : SourceAnswers,
                       extra : BoundedSeq(IPs, 1),
                       conn : [IPs -> ConnectOutcomes],
                       n : 1..MaxN,
                       timeout : 1..MaxLatency]
    /\ run_outputs = <<>>

\* one more process runs the pipeline on the same inputs
BootstrapRun ==
    /\ pc = "replay"
    /\ Len(run_outputs) < MaxRuns
    /\ \E fetched \in FetchHyperliquidSeedPeers(run_inputs.answers, ignored_seed_peers) :
          run_outputs' = Append(run_outputs, PersistedRootNodeIps(run_inputs, fetched))
    /\ UNCHANGED <<args, pc, network, ignored_seed_peers, config, fetchVars, speedVars,
                   fileVars, result, exit_code, io, probeVars, cleanupVars, monitorVars,
                   taskVars, parseVars, run_inputs>>

\* the files of the runs are compared; nothing changes any more
ReplayDone ==
    /\ pc = "replay"
    /\ Len(run_outputs) = MaxRuns
    /\ pc' = "replayed"
    /\ UNCHANGED <<args, network, ignored_seed_peers, config, fetchVars, speedVars,
                   fileVars, result, exit_code, io, probeVars, workerVars>>

NextReplay ==
    \/ BootstrapRun
    \/ ReplayDone

SpecReplay == InitReplay /\ [][NextReplay]_vars

(***************************************************************************)
(* SpecLoops: the two background loops, each in the configuration in which *)
(* it runs without the other (prune only, metrics only).  The loops share  *)
(* no state with each other, so what holds of each alone holds when both   *)
(* run; the handlers of the server only read the gauges and are left out.  *)
(***************************************************************************)
InitLoops == InitPrune \/ (InitMonitor /\ healthy_drift_threshold = 0)

\* the steps of the poller task
PollerNext == PollTick \/ PollTimerFires \/ PollResolve

NextLoops == NextPrune \/ PollerNext

SpecLoops == InitLoops /\ [][NextLoops]_vars

\* the multi-thread runtime (main.rs:160-167) keeps running a task that can
\* take a step, the timers fire, the status request resolves within its
\* timeout and the file-system calls return
SpecLoopsFair == SpecLoops /\ WF_vars(NextPrune) /\ WF_vars(PollerNext)

(***************************************************************************)
(* SpecTasks: the background tasks and the main thread of run_node, with   *)
(* tasks that end and a child that exits.  The handles of the tasks are    *)
(* never awaited (main.rs:194-230) and the main thread blocks in           *)
(* child.wait() outside the runtime (main.rs:237).                         *)
(***************************************************************************)
\* the panic strategy of the build; the profile is not part of the sources
\* at hand, this is the default of the language
PanicStrategy == "unwind"

\* the variables of main that the tasks neither read nor write
mainVars == <<args, network, ignored_seed_peers, config, fetchVars, speedVars, fileVars,
              result, io>>

\* the prune worker runs alone over one tree, or the poller and the server
\* run with one threshold
InitTasks ==
    \/ /\ InitPrune
       /\ \A path \in FilePaths : tree0[path].mtime = 0
    \/ /\ InitMonitor
       /\ healthy_drift_threshold = 0

\* mutant of TaskEnds: main joins the tasks, the end of one ends the process
TaskEndsProcess ==
    /\ pc = "node"
    /\ \E task \in io.tasks \ ended, cause \in {"panic", "return"} :
          /\ cause = "return" => task = "metrics_server"
          /\ ended' = ended \cup {task}
          /\ pc' = "exited"
          /\ exit_code' = 1
    /\ UNCHANGED <<mainVars, probeVars, cleanupVars, monitorVars, parseVars, replayVars>>

\* main.rs:194-230: a task ends.  Any of them may panic (monitor/mod.rs:95
\* unwraps the clock reading, interval() panics on a period of zero); the
\* server task returns when run_metrics_server fails (main.rs:220-228).  A
\* panic that unwinds is caught by the runtime and kept in the JoinHandle,
\* which nobody awaits; a panic that aborts ends the process
TaskEnds ==
    /\ pc = "node"
    /\ \E task \in io.tasks \ ended, cause \in {"panic", "return"} :
          /\ cause = "return" => task = "metrics_server"
          /\ IF cause = "panic" /\ PanicStrategy = "abort"
             THEN /\ pc' = "aborted"
                  /\ exit_code' = 134
                  /\ UNCHANGED ended
             ELSE /\ ended' = ended \cup {task}
                  /\ UNCHANGED <<pc, exit_code>>
    /\ UNCHANGED <<mainVars, probeVars, cleanupVars, monitorVars, parseVars, replayVars>>

\* main.rs:237-239: child.wait() returns, run_node returns and drops the
\* runtime, which cancels the tasks; main returns Ok when the wait
\* succeeded, whatever the exit status of the child, and the error otherwise
ChildExit ==
    /\ pc = "node"
    /\ pc' = "child_exited"
    /\ \E waited \in BOOLEAN : exit_code' = IF waited THEN 0 ELSE 1
    /\ UNCHANGED <<mainVars, probeVars, workerVars>>

NextTasks ==
    \/ NextPrune
    \/ NextMonitor
    \/ TaskEnds
    \/ ChildExit

SpecTasks == InitTasks /\ [][NextTasks]_vars

(***************************************************************************)
(* Properties                                                              *)
(***************************************************************************)
\* no address occurs at two positions of a sequence of peers
DistinctAddresses(peers) ==
    \A i, j \in 1..Len(peers) : peers[i].ip = peers[j].ip => i = j

\* prepare_hl_node has returned
Returned == pc \in {"returned", "exited"}

\* this run has renamed a new configuration onto the target path
Persisted == io.renamed

\* C1: on the primary network the list returned by
\* fetch_hyperliquid_seed_peers contains each address exactly once, also when
\* the API fetcher and the markdown-table fetcher return the same address
\* under different source labels.
C1_AggregatorOneEntryPerAddress ==
    (pc = "extras" /\ network = "Mainnet") => DistinctAddresses(seed_nodes)

\* C2: every Gossip Configuration that prepare_hl_node persists has a
\* root_node_ips sequence without duplicate addresses.
C2_PersistedRootNodeIpsDistinct ==
    Persisted =>
        LET ips == ValueOf(target.content, "root_node_ips")
        IN  \A i, j \in 1..Len(ips) : ips[i] = ips[j] => i = j

\* the indices of the candidates whose probe succeeded, and their latencies
SuccessfulIdx == {successful_nodes[j][1] : j \in 1..Len(successful_nodes)}
LatencyOf(idx) ==
    successful_nodes[CHOOSE j \in 1..Len(successful_nodes) : successful_nodes[j][1] = idx][2]

\* C3: speedtest_nodes never returns more than n peers; every returned peer
\* completed its probe successfully and is no slower than any successfully
\* probed peer that was not returned; returned peers are in ascending order
\* of latency, peers of equal latency in the order of the candidate list.
C3_LowestLatencyStable ==
    pc = "tested" =>
        /\ tested_seed_nodes.ok
        /\ Len(tested_seed_nodes.val) <= n_arg
        /\ \E sel \in [1..Len(tested_seed_nodes.val) -> SuccessfulIdx] :
              /\ \A i \in DOMAIN sel : tested_seed_nodes.val[i] = seed_nodes[sel[i]]
              /\ \A i, j \in DOMAIN sel :
                    i < j => \/ LatencyOf(sel[i]) < LatencyOf(sel[j])
                             \/ /\ LatencyOf(sel[i]) = LatencyOf(sel[j])
                                /\ sel[i] < sel[j]
              /\ \A i \in DOMAIN sel :
                    \A u \in SuccessfulIdx \ {sel[k] : k \in DOMAIN sel} :
                        LatencyOf(sel[i]) <= LatencyOf(u)

\* C3 witness: three probes succeeded, the first slower than the two others,
\* which tie; two peers are returned
C3_Witness ==
    /\ pc = "tested"
    /\ Len(successful_nodes) = 3
    /\ successful_nodes[1][2] > successful_nodes[2][2]
    /\ successful_nodes[2][2] = successful_nodes[3][2]
    /\ Len(tested_seed_nodes.val) = 2
    /\ seed_nodes[2] # seed_nodes[3]

\* C4: the number of probe tasks that hold a permit with a connection
\* attempt in flight never exceeds 64, and no task enters that position
\* while no permit is free: the tasks suspended in acquire stay suspended.
C4_PermitBound ==
    /\ [](p_inflight <= concurrency)
    /\ [][(pc = "join" /\ permits = 0) =>
            (p_inflight' <= p_inflight /\ p_waiting' = p_waiting)]_vars

\* C4 witness: 64 attempts in flight, no permit free, a task suspended
C4_Witness ==
    /\ p_inflight = concurrency
    /\ permits = 0
    /\ p_waiting > 0
    /\ p_done > 0

\* C5: if every probe attempt fails (transport error or timeout),
\* speedtest_nodes returns Ok with an empty sequence.
C5_AllFailedIsOkEmpty ==
    (pc = "tested" /\ failed = Len(seed_nodes)) => tested_seed_nodes = Ok(<<>>)

\* C5 witness: several candidates, every probe failed, n > 0
C5_Witness ==
    /\ pc = "tested"
    /\ Len(seed_nodes) >= 2
    /\ failed = Len(seed_nodes)
    /\ n_arg > 0
    /\ tested_seed_nodes = Ok(<<>>)

\* C6: at every moment the target path shows either what it showed when the
\* run started or the complete serialized new configuration; the target
\* changes only by the rename of the completely written temporary file.
C6_AtomicReplace ==
    /\ [](\/ target = args.target0
          \/ /\ target.kind = "file"
             /\ target.content = Serialize(config))
    /\ [][target' # target =>
            /\ pc = "persist"
            /\ tmp.exists
            /\ tmp.content = Serialize(config)
            /\ target'.content = tmp.content
            /\ ~tmp'.exists]_vars

\* C6 witness: the temporary file holds part of the new document while the
\* target path still shows the previous file
C6_Witness ==
    /\ pc = "write"
    /\ tmp.exists
    /\ Len(tmp.content) > 1
    /\ Len(tmp.content) < Len(Serialize(config))
    /\ target.kind = "file"
    /\ target = args.target0

\* the target path held a regular file modified no longer ago than max-age
\* when the run started
FreshTarget ==
    /\ args.target0.kind = "file"
    /\ NowTime - args.target0.mtime <= args.max_age

\* no source was fetched, no probe was started, no file was written
NoActivity ==
    /\ ~io.fetched
    /\ ~io.probed
    /\ ~io.temp_created
    /\ ~io.renamed
    /\ tmp = NoTemp
    /\ target = args.target0

RefreshDecided == pc \notin {"start", "check_age"} /\ network # None
Refreshing == config.chain # None

\* C8: the refresh decision is true exactly when the target path is absent
\* or no regular file, or its age strictly exceeds max-age; an age equal to
\* max-age and a modification time in the future yield no refresh.
C8_RefreshDecision ==
    RefreshDecided =>
        (Refreshing <=> \/ args.target0.kind # "file"
                        \/ /\ args.target0.mtime <= NowTime
                           /\ NowTime - args.target0.mtime > args.max_age)

\* C8 witness: a modification time in the future, no refresh
C8_Witness ==
    /\ RefreshDecided
    /\ args.target0.kind = "file"
    /\ args.target0.mtime > NowTime
    /\ ~Refreshing
    /\ result = "Ok"

\* C9: in every persisted configuration n_gossip_peers is absent when at
\* most 8 peers were selected and equals min(count, 100) when more were, so
\* that when present it lies in 1..100.
C9_GossipPeersClamped ==
    Persisted =>
        LET count == Len(ValueOf(target.content, "root_node_ips"))
        IN  /\ count = Len(config.root_node_ips)
            /\ IF count <= 8
               THEN /\ ~HasKey(target.content, "n_gossip_peers")
                    /\ config.n_gossip_peers = NoneOpt
               ELSE /\ HasKey(target.content, "n_gossip_peers")
                    /\ config.n_gossip_peers = Some(IF count < 100 THEN count ELSE 100)
                    /\ ValueOf(target.content, "n_gossip_peers") =
                           <<ToString(config.n_gossip_peers[1])>>
                    /\ config.n_gossip_peers[1] \in 1..100

\* C9 witness: more than 100 peers were selected and persisted
C9_Witness ==
    /\ Persisted
    /\ Len(config.root_node_ips) > 100
    /\ ValueOf(target.content, "n_gossip_peers") = <<"100">>

\* C10: if the prober returns no peer for a non-empty candidate list,
\* prepare_hl_node fails, nothing is written, and the process exits with a
\* non-zero status.
C10_NoPeerPassedIsFatal ==
    (Returned /\ io.probed /\ tested_seed_nodes = Ok(<<>>)) =>
        /\ seed_nodes # <<>>
        /\ result = "Err"
        /\ ~io.temp_created
        /\ tmp = NoTemp
        /\ target = args.target0
        /\ pc = "exited" => exit_code # 0

\* C10 witness: several candidates, more than zero were asked for, none
\* passed, the process exited with status 1
C10_Witness ==
    /\ pc = "exited"
    /\ exit_code = 1
    /\ io.probed
    /\ Len(seed_nodes) >= 2
    /\ n_arg > 0
    /\ tested_seed_nodes = Ok(<<>>)

\* the peers returned by the mainnet fetchers that succeeded
SucceededPeers ==
    UNION {Range(sources[f][1].val) :
              f \in {g \in {"api", "md"} : sources[g] # NoneOpt /\ sources[g][1].ok}}

\* C11: on Mainnet, whatever the API fetcher returns, the markdown fetcher
\* is attempted next; once both have returned, a failure of one of them has
\* not ended the aggregation: it succeeds exactly when the union of the
\* peers of the fetchers that succeeded is non-empty, and then returns
\* exactly that union, each peer once.
C11_BothStrategiesUnioned ==
    /\ [][(pc = "fetch_api" /\ sources'.api # NoneOpt) => pc' = "fetch_md"]_vars
    /\ [](sources.md # NoneOpt =>
            /\ network = "Mainnet"
            /\ sources.api # NoneOpt
            /\ IF SucceededPeers # {}
               THEN /\ pc = "extras"
                    /\ result = "running"
                    /\ Range(seed_nodes) = SucceededPeers
                    /\ Len(seed_nodes) = Cardinality(SucceededPeers)
               ELSE /\ Returned
                    /\ result = "Err")

\* C11 witness: the API fetcher failed, the markdown fetcher returned two
\* peers, and the aggregate returned them
C11_Witness ==
    /\ pc = "extras"
    /\ sources.api = Some(Err)
    /\ sources.md # NoneOpt
    /\ sources.md[1].ok
    /\ Len(seed_nodes) = 2

\* C12: fetch_hyperliquid_seed_peers never returns Ok with an empty
\* candidate list, on either chain: when every source of the chain failed
\* or gave an empty or wholly ignored list, it returned an error.
C12_NeverOkEmpty ==
    (pc = "extras" /\ network \in Chains) => seed_nodes # <<>>

\* C13: hl-visor is launched only by run_node, which main enters only after
\* prepare_hl_node returned Ok; when prepare_hl_node returned an error the
\* node is never launched and no background task is started.
C13_LaunchAfterBootstrap ==
    /\ [](io.launched => (result = "Ok" /\ pc = "node"))
    /\ [](result # "Ok" => (~io.launched /\ io.tasks = {}))
    /\ [](pc = "run_node" => result = "Ok")
    /\ [][(io' # io /\ (io'.launched \/ io'.tasks # {})) =>
            (pc = "run_node" /\ result = "Ok")]_vars

\* C13 witness: a refresh was persisted, the background tasks were spawned
\* and the node was launched
C13_Witness ==
    /\ io.launched
    /\ io.renamed
    /\ io.tasks = {"prune_task", "poll_task", "metrics_server"}
    /\ pc = "node"

\* C14: prepare_hl_node eventually returns, with success or an error, in
\* every execution, also when a remote side never answers.
C14_PrepareTerminates == <>Returned

\* C15: when a refresh replaces an existing config file, every top-level
\* field of that file which the program does not recognise (here
\* reserved_peer_ips) is in the new file with the same value.
C15_UnknownFieldsPreserved ==
    (Persisted /\ args.target0.kind = "file") =>
        /\ HasKey(target.content, "reserved_peer_ips")
        /\ ValueOf(target.content, "reserved_peer_ips") =
               ValueOf(args.target0.content, "reserved_peer_ips")

\* the regular files of a tree that are not directly in the watched root,
\* are not named visor_child_stderr and are older than the threshold
Eligible(t) ==
    {path \in PrunePaths :
        /\ t[path].kind = "file"
        /\ Len(path) > 1
        /\ path[Len(path)] # "visor_child_stderr"
        /\ PruneNow - t[path].mtime > PruneOlderThan}

\* the paths that existed when the cycle started and exist no longer
Deleted == {path \in PrunePaths : tree0[path].kind # "gone" /\ tree[path].kind = "gone"}

CycleEnded == cleanup_pc = "done"

\* C16 as stated: after a prune cycle the deleted files are exactly the
\* eligible files of the tree, whatever happened during the cycle.
C16_ExactlyEligibleDeleted ==
    CycleEnded => Deleted = Eligible(tree0)

\* C16 amended: at every moment only eligible files have been deleted and
\* every other file and every directory is as it was; after a cycle in
\* which no file-system operation failed, every eligible file is deleted.
C16_DeletedWithinEligible ==
    /\ Deleted \subseteq Eligible(tree0)
    /\ \A path \in PrunePaths \ Eligible(tree0) : tree[path] = tree0[path]
    /\ (CycleEnded /\ errors = {}) =>
          /\ cleanup_result = "Ok"
          /\ Deleted = Eligible(tree0)

\* C16 witness: no operation failed; the file three levels down was deleted,
\* the file exactly as old as the threshold, the old file in the root and
\* the old visor_child_stderr were kept
C16_Witness ==
    /\ CycleEnded
    /\ errors = {}
    /\ Deleted = {<<"d", "d", "f">>}
    /\ PruneNow - tree0[<<"d", "f">>].mtime = PruneOlderThan
    /\ tree0[<<"f">>].mtime = 0
    /\ tree0[<<"d", "visor_child_stderr">>].mtime = 0

\* C17: within a cycle nothing is deleted, and no deletion is attempted,
\* while the walk is going on; when the walk has finished, a deletion is
\* attempted for every marked file, in order, whether or not earlier
\* deletions failed, and at the end removed + failed is the number of marked
\* files.
C17_WalkThenDeleteAll ==
    /\ [][(~CycleEnded /\ (tree' # tree \/ attempted' # attempted)) =>
            (cleanup_pc = "remove" /\ walk = <<>>)]_vars
    /\ []((CycleEnded /\ cleanup_result = "Ok") =>
            /\ attempted = files_to_remove
            /\ removed + failed_rm = Len(files_to_remove)
            /\ removed = Cardinality(Deleted)
            /\ failed_rm =
                 Cardinality({i \in 1..Len(attempted) : tree[attempted[i]].kind # "gone"}))

\* C17 witness: two files were marked, the first deletion failed and the
\* second was carried out
C17_Witness ==
    /\ CycleEnded
    /\ cleanup_result = "Ok"
    /\ Len(files_to_remove) = 2
    /\ Len(attempted) = 2
    /\ tree[attempted[1]].kind = "file"
    /\ tree[attempted[2]].kind = "gone"
    /\ removed = 1
    /\ failed_rm = 1

\* the directories that could not be opened or whose entries could not be
\* read
UnreadDirs == {e.path : e \in {x \in errors : x.op \in {"read_dir", "entry"}}}

\* path lies in dir or below it
Below(path, dir) == Len(path) > Len(dir) /\ SubSeq(path, 1, Len(dir)) = dir

\* C18: when reading a directory failed during a cycle (on opening it or on
\* reading one of its entries), the cycle still returns Ok and every
\* eligible file outside that directory, whose own metadata and deletion did
\* not fail, is deleted.
C18_ReadFailureSkipsSubdir ==
    (CycleEnded /\ UnreadDirs # {}) =>
        /\ cleanup_result = "Ok"
        /\ \A path \in Eligible(tree0) :
              (/\ \A dir \in UnreadDirs : ~Below(path, dir)
               /\ \A e \in errors : e.path # path)
                  => tree[path].kind = "gone"

\* the most recently completed poll tick got the node's answer
LastTickResponding == last_tick = Some(TRUE)

\* the server answers a request to the endpoint in this step
Answers(endpoint) == response = NoResponse /\ response'.endpoint = endpoint

\* C19: /livez answers 200 when the most recently completed poll tick marked
\* the node responding and 503 otherwise, in particular before the first
\* tick has completed.
C19_LivezFollowsLastTick ==
    [][Answers("/livez") =>
          /\ response'.status \in {200, 503}
          /\ response'.status = 200 <=> LastTickResponding
          /\ last_tick = NoneOpt => response'.status = 503]_vars

\* C19 witness: /livez has answered 200 while the next tick, which samples
\* another wall-clock time, is waiting for the node
C19_Witness ==
    /\ response = HttpResponse("/livez", 200)
    /\ LastTickResponding
    /\ poll_pc = "request"
    /\ system_now # 0

\* the drift /readyz computes from the published times
PublishedDrift == MaxZero(gauge_system_time - gauge_node_time)

\* C20: /readyz answers 503 when the node did not respond in the most
\* recent poll, 503 when it responded but the drift is not strictly below
\* the threshold, and 200 only when it responded and the drift is strictly
\* below the threshold.
C20_ReadyzStrictThreshold ==
    [][Answers("/readyz") =>
          /\ response'.status \in {200, 503}
          /\ ~LastTickResponding => response'.status = 503
          /\ (LastTickResponding /\ PublishedDrift >= healthy_drift_threshold)
                => response'.status = 503
          /\ response'.status = 200 =>
                (LastTickResponding /\ PublishedDrift < healthy_drift_threshold)]_vars

\* C20 witness: the node responded, the drift equals the threshold, and
\* /readyz has answered 503
C20_Witness ==
    /\ response = HttpResponse("/readyz", 503)
    /\ LastTickResponding
    /\ healthy_drift_threshold > 0
    /\ PublishedDrift = healthy_drift_threshold

\* C21: whenever /readyz answers while the responding flag is 1, the drift
\* it compares against the threshold is the drift sample most recently
\* recorded by the poller, that is, the system time and the node time it
\* reads come from the same poll tick.
C21_ReadyzUsesLatestSample ==
    [][(Answers("/readyz") /\ gauge_responding = 1)
          => Some(PublishedDrift) = drift_sample]_vars

\* a poll tick completes in this step
CompletesTick == poll_pc = "request" /\ poll_pc' = "tick"

\* C22: after every completed poll tick the published system time is the
\* wall-clock time sampled at that tick and the responding flag is 1 exactly
\* when the request of that tick succeeded; a successful tick publishes the
\* node time and records the difference, clamped at zero, as a new drift
\* sample; a failed tick leaves the node time and the drift sample as they
\* were.
C22_TickPublishes ==
    [][CompletesTick =>
          /\ gauge_system_time' = system_now
          /\ gauge_responding' \in {0, 1}
          /\ gauge_responding' = 1 <=> last_tick' = Some(TRUE)
          /\ last_tick' = Some(TRUE) =>
                drift_sample' = Some(MaxZero(system_now - gauge_node_time'))
          /\ last_tick' # Some(TRUE) =>
                /\ gauge_node_time' = gauge_node_time
                /\ drift_sample' = drift_sample]_vars

\* C22 witness: a tick has succeeded with the node's clock ahead of the
\* wall clock, and the recorded drift sample is zero
C22_Witness ==
    /\ poll_pc = "tick"
    /\ LastTickResponding
    /\ gauge_node_time > gauge_system_time
    /\ drift_sample = Some(0)

\* the poller logs its failure warning in this step: the tick fails with an
\* error other than a transport error while the counter is at a multiple of
\* WarnEvery, and the counter starts again
Warns ==
    /\ CompletesTick
    /\ poll_n % WarnEvery = 0
    /\ poll_n' = 1
    /\ last_tick' = Some(FALSE)

\* C28: a successful poll starts a new run of failures, so the warning is
\* never logged by a failure that directly follows a successful poll (its
\* run has length 1, which is shorter than WarnEvery).
C28_NoWarningForShortRun == [][Warns => ~LastTickResponding]_vars

\* C29: every candidate has exactly one probe task, which is waiting for a
\* permit, connecting or finished, and a finished task never runs again;
\* under fair scheduling speedtest_nodes returns, and when it returns every
\* task has resolved and given its permit back, also with more candidates
\* than permits.
C29_ProbesComplete ==
    /\ [](pc \in {"join", "tested"} => p_waiting + p_inflight + p_done = p_total)
    /\ [][p_total' = p_total /\ p_done' >= p_done]_vars
    /\ [](pc = "tested" => (p_done = p_total /\ permits = concurrency))
    /\ <>(pc = "tested")

\* C29 witness: speedtest_nodes has returned from a run with more candidates
\* than permits
C29_Witness ==
    /\ pc = "tested"
    /\ p_total > concurrency
    /\ p_done = p_total

\* a prune cycle has returned an error and the worker waits for its timer
PruneCycleFailed == CycleEnded /\ cleanup_result = "Err"

\* a poll tick has failed and the poller waits for its timer
PollTickFailed == poll_pc = "tick" /\ last_tick = Some(FALSE)

\* C23: a prune cycle that returned an error and a poll tick whose request
\* failed are followed by another cycle of the same loop, which starts only
\* when a tick of the interval is delivered.
C23_LoopsGoOn ==
    /\ PruneCycleFailed ~> (cleanup_pc = "walk")
    /\ PollTickFailed ~> (poll_pc = "request")
    /\ [][(CycleEnded /\ ~CycleEnded') => (prune_due > 0 /\ cleanup_pc' = "idle")]_vars
    /\ [][(poll_pc = "tick" /\ poll_pc' # "tick") =>
            (poll_due > 0 /\ poll_pc' = "request")]_vars

\* C23 witness: the tick before failed and the next poll cycle is running
C23_Witness ==
    /\ last_tick = Some(FALSE)
    /\ poll_pc = "request"
    /\ poll_n > 1

\* C25: a loop starts a cycle only when its previous cycle has ended, and
\* the tick that starts it uses up every deadline that passed meanwhile:
\* while a cycle runs no passed deadline is left to start another one
\* without waiting.
C25_MissedTicksDropped ==
    /\ [](poll_pc = "request" => poll_due = 0)
    /\ [](~CycleEnded => prune_due = 0)
    /\ [][(poll_pc = "tick" /\ poll_pc' = "request") =>
            (poll_due >= 1 /\ poll_due' = 0)]_vars
    /\ [][(CycleEnded /\ ~CycleEnded') => (prune_due >= 1 /\ prune_due' = 0)]_vars
    /\ [][(poll_due' > poll_due /\ poll_due' > 1) => CompletesTick]_vars

\* C25 witness: a poll cycle took longer than MaxMissedTicks periods, it has
\* ended and the poller is about to take its next tick
C25_Witness ==
    /\ poll_pc = "tick"
    /\ poll_due = MaxMissedTicks
    /\ last_tick # NoneOpt

\* C24: the end of a background task, by panic or by return, changes
\* nothing but that task: the main thread goes on waiting for the child and
\* the state of the other tasks is untouched; every task that has not ended
\* can take its next step however many others have ended; and the process
\* ends only by the return of child.wait().
C24_TaskEndIsolated ==
    /\ [][ended' # ended =>
            /\ pc = "node" /\ pc' = "node"
            /\ exit_code' = exit_code
            /\ \E task \in io.tasks \ ended : ended' = ended \cup {task}
            /\ UNCHANGED <<cleanupVars, monitorVars>>]_vars
    /\ [](Running("prune_task") => ENABLED NextPrune)
    /\ [](Running("poll_task") => ENABLED PollerNext)
    /\ []((Running("metrics_server") /\ response = NoResponse) =>
            (ENABLED Livez /\ ENABLED Readyz))
    /\ [][pc' # pc => (pc = "node" /\ pc' = "child_exited" /\ ended' = ended)]_vars

\* C24 witness: the server task has ended, the poller is in the middle of a
\* later cycle and the main thread waits for the child
C24_Witness ==
    /\ pc = "node"
    /\ ended = {"metrics_server"}
    /\ poll_pc = "request"
    /\ last_tick # NoneOpt

\* C26: the /info proxy sends the body it received, unchanged and with the
\* method of the request, to the /info endpoint of the node; when the node
\* answered in full it relays the node's status and body; when the node is
\* unreachable it answers 502; whatever the outcome, the server task has not
\* ended and answers the next request.
C26_ProxyRelays ==
    /\ [][Answers("/info") =>
            LET x == info_exchange'
            IN  /\ x.forwarded # NoneOpt =>
                      /\ x.forwarded[1].method = x.method
                      /\ x.forwarded[1].body = x.body
                      /\ x.forwarded[1].url = "/info"
                /\ x.upstream # NoneOpt =>
                      /\ x.forwarded # NoneOpt
                      /\ (x.upstream[1].kind = "answered" /\ x.upstream[1].complete) =>
                            /\ response'.status = x.upstream[1].status
                            /\ x.reply = x.upstream[1].body
                      /\ x.upstream[1].kind = "unreachable" => response'.status = 502
                /\ x.upstream = NoneOpt => response'.status = 400
                /\ ended' = ended]_vars
    /\ []((Running("metrics_server") /\ response = NoResponse) => ENABLED ProxyInfo)

\* C26 witness: a GET with a body was proxied, the node was unreachable and
\* the proxy has answered 502
C26_Witness ==
    /\ response = HttpResponse("/info", 502)
    /\ info_exchange.method = "GET"
    /\ info_exchange.body # <<>>
    /\ info_exchange.forwarded = Some(ProxyRequest("GET", info_exchange.headers, info_exchange.body))
    /\ info_exchange.upstream[1].kind = "unreachable"

\* the value of a member of the document, or the value that stands for a
\* missing member
MemberOr(document, key, missing) ==
    IF HasKey(document, key) THEN ValueOf(document, key) ELSE missing

\* both documents give the same configuration and the same unknown members
SameConfiguration(a, b) ==
    /\ MemberOr(a, "root_node_ips", <<>>) = MemberOr(b, "root_node_ips", <<>>)
    /\ MemberOr(a, "try_new_peers", <<"false">>) = MemberOr(b, "try_new_peers", <<"false">>)
    /\ MemberOr(a, "chain", <<>>) = MemberOr(b, "chain", <<>>)
    /\ MemberOr(a, "n_gossip_peers", <<"null">>) = MemberOr(b, "n_gossip_peers", <<"null">>)
    /\ {m \in Range(a) : m.k \notin KnownKeys} = {m \in Range(b) : m.k \notin KnownKeys}

\* C27: a document that parses is written back with the same root_node_ips,
\* try_new_peers, chain and n_gossip_peers (a missing member counting as its
\* default) and with every member of an unknown key, value unchanged; the
\* written document parses, and writing it again gives the same document.
C27_RoundTrip ==
    pc = "serialized" =>
        /\ SameConfiguration(config_snippet, serialized)
        /\ Deserialize(serialized).ok
        /\ Serialize(Deserialize(serialized).val) = serialized

\* C27 witness: a document with two unknown members, without try_new_peers
\* and with n_gossip_peers null was parsed and written; the written
\* document differs from it
C27_Witness ==
    /\ pc = "serialized"
    /\ HasKey(config_snippet, "zz_extra")
    /\ HasKey(config_snippet, "reserved_peer_ips")
    /\ ~HasKey(config_snippet, "try_new_peers")
    /\ MemberOr(config_snippet, "n_gossip_peers", <<>>) = <<"null">>
    /\ serialized # config_snippet

\* the line looks like a header row: a row of at least two cells whose first
\* cell mentions the operator or whose second mentions the root or the ip
LooksLikeHeader(line) ==
    /\ line.t = "row"
    /\ Len(line.cells) >= 2
    /\ MentionsOperator(line.cells[1]) \/ MentionsRootOrIp(line.cells[2])

\* the least element of a non-empty set of numbers
Least(S) == CHOOSE x \in S : \A y \in S : x <= y

\* the rows the claim names, for the lines of a section: after the first
\* header row, before the first line that is neither blank nor tabular and
\* follows the start of the table (the first separator or header row), with
\* at least two cells, the second an address that is not ignored
RowsOfTable(section, ignored) ==
    LET headers == {i \in 1..Len(section) : LooksLikeHeader(section[i])}
        starts == {i \in 1..Len(section) : section[i].t = "sep"} \cup headers
        ends == IF starts = {} THEN {}
                ELSE {i \in 1..Len(section) : i > Least(starts) /\ section[i].t = "text"}
        end == IF ends = {} THEN Len(section) + 1 ELSE Least(ends)
        named(i) == /\ headers # {}
                    /\ i > Least(headers)
                    /\ i < end
                    /\ section[i].t = "row"
                    /\ Len(section[i].cells) >= 2
                    /\ ParsesAsIpv4(section[i].cells[2])
                    /\ section[i].cells[2] \notin ignored
        picked == SelectSeq([i \in 1..Len(section) |-> i], named)
    IN  [k \in 1..Len(picked) |->
            HyperliquidSeedPeer(section[picked[k]].cells[1], section[picked[k]].cells[2])]

\* C30: for every sequence of lines of the located section the fetcher
\* returns exactly the rows after the first recognised header row and before
\* the first non-blank non-tabular line that follows the start of the table,
\* which have at least two cells and an address that is not ignored in the
\* second, in order; it fails only when there is no such row or no section.
C30_TableRows ==
    pc \in {"table_parsed", "table_done"} =>
        IF ~peers_content.ok THEN md_result = Err
        ELSE LET rows == RowsOfTable(peers_content.val, ignored_seed_peers)
             IN  md_result = IF rows = <<>> THEN Err ELSE Ok(rows)

\* C30 witness: a row with an address stands before the header and another
\* one after the line that ends the table; only the row between was returned
C30_Witness ==
    /\ pc = "table_parsed"
    /\ peers_content.ok
    /\ Len(peers_content.val) = MaxLines
    /\ peers_content.val[1] = Line("row", HeaderCells)
    /\ peers_content.val[2] = Line("row", <<"opA", "10.0.0.2">>)
    /\ peers_content.val[3] = Line("text", <<>>)
    /\ peers_content.val[4] = Line("row", <<"opA", "10.0.0.1">>)
    /\ ignored_seed_peers = {}
    /\ md_result = Ok(<<HyperliquidSeedPeer("opA", "10.0.0.2")>>)

\* the candidate list has been handed to speedtest_nodes
HandedToProber == pc \in {"join", "tested"}

\* C31: no address of the ignore set is ever among the candidates handed to
\* the prober, and none is in root_node_ips of a configuration this run
\* persisted, whatever the sources returned and whatever extra peers were
\* supplied.
C31_IgnoredNeverUsed ==
    /\ HandedToProber =>
          \A i \in 1..Len(seed_nodes) : seed_nodes[i].ip \notin ignored_seed_peers
    /\ Persisted =>
          Range(ValueOf(target.content, "root_node_ips")) \cap ignored_seed_peers = {}

\* what the prober returned in this run; it is not called for an empty
\* candidate list (main.rs:320)
ProberResult == IF io.probed /\ tested_seed_nodes.ok THEN tested_seed_nodes.val ELSE <<>>

\* C32: every configuration prepare_hl_node persists has the selected network
\* as chain and try_new_peers true, and its root_node_ips is the sequence of
\* addresses of the prober's result; that result has at most
\* seed_peers_amount entries, in ascending order of latency, each a
\* candidate whose probe succeeded in this run within the maximum latency.
C32_PersistedIsProberResult ==
    /\ Persisted =>
          /\ target.kind = "file"
          /\ ValueOf(target.content, "chain") = <<network>>
          /\ ValueOf(target.content, "try_new_peers") = <<"true">>
          /\ ValueOf(target.content, "root_node_ips") =
                [i \in 1..Len(ProberResult) |-> ProberResult[i].ip]
          /\ Len(ProberResult) <= n_arg
    /\ pc = "tested" =>
          /\ tested_seed_nodes.ok
          /\ Len(tested_seed_nodes.val) <= n_arg
          /\ \E sel \in [1..Len(tested_seed_nodes.val) -> SuccessfulIdx] :
                /\ \A i \in DOMAIN sel :
                      /\ tested_seed_nodes.val[i] = seed_nodes[sel[i]]
                      /\ LatencyOf(sel[i]) <= timeout_duration
                /\ \A i, j \in DOMAIN sel :
                      i < j => /\ sel[i] # sel[j]
                               /\ LatencyOf(sel[i]) <= LatencyOf(sel[j])

\* C32 witness: three candidates were probed, two peers were asked for, and
\* a file with two different addresses was persisted
C32_Witness ==
    /\ Persisted
    /\ Len(seed_nodes) = 3
    /\ n_arg = 2
    /\ Len(ValueOf(target.content, "root_node_ips")) = 2
    /\ ValueOf(target.content, "root_node_ips")[1] # ValueOf(target.content, "root_node_ips")[2]
    /\ ValueOf(target.content, "chain") = <<"Mainnet">>

\* C33 as stated: whenever prepare_hl_node has returned an error the target
\* path shows what it showed before the call and no temporary file of the
\* call is in the directory.
C33_ErrorLeavesNothing ==
    (Returned /\ result = "Err") =>
        /\ target = args.target0
        /\ ~tmp.exists

\* C33, amended: whenever prepare_hl_node has returned an error the target
\* path shows what it showed before the call; a temporary file of the call
\* is still in the directory only while the returned error, which carries
\* it after a failed rename, has not been dropped by main, or when the one
\* attempt to remove it failed; once the process has exited nothing owns it.
C33_ErrorLeavesTarget ==
    (Returned /\ result = "Err") =>
        /\ target = args.target0
        /\ tmp.exists => \/ io.remove_failed
                         \/ /\ pc = "returned"
                            /\ tmp.held
                            /\ tmp.content = Serialize(config)
        /\ pc = "exited" => ~tmp.held

\* C33 witness: the rename onto an existing file failed, the process has
\* ended with status 1, the temporary file is gone and the file is as before
C33_Witness ==
    /\ pc = "exited"
    /\ result = "Err"
    /\ exit_code = 1
    /\ io.temp_created
    /\ ~io.remove_failed
    /\ ~tmp.exists
    /\ target.kind = "file"
    /\ target = args.target0
    /\ Len(config.root_node_ips) = 2

\* C34: runs of the pipeline that receive the same answers of the sources,
\* the same ignore and extra lists and the same probe outcomes persist the
\* same root_node_ips sequence.
C34_SameInputsSameFile ==
    \A i, j \in 1..Len(run_outputs) :
        (run_outputs[i].ok /\ run_outputs[j].ok) => run_outputs[i] = run_outputs[j]

====
